---- MODULE Spec2Model ----
(***************************************************************************)
(* A model of the concept-decomposition core: the four-stage pipeline      *)
(* orchestrator (PipelineOrchestrator.runPipeline), the Gemini adapter     *)
(* (callGemini, parseGeminiResponse, callGeminiWithRetry), the governing   *)
(* prompt guard and the narrative renderer.                                *)
(*                                                                         *)
(* Text is modelled as a sequence of string tokens: a literal chunk of a   *)
(* template, a placeholder, or one string supplied by the user or by the   *)
(* generative service.  Concatenation of strings is \o on such sequences.  *)
(***************************************************************************)
EXTENDS Integers, Sequences, FiniteSets, TLC

(***************************************************************************)
(* Bounds of the model.                                                    *)
(***************************************************************************)
\* longest principle array (first_principles, validated_principles) returned
MaxPrinciples == 2
\* longest reconstruction / examples / use_cases / scenarios / challenges array
MaxItems == 2
\* largest maxRetries argument given to callGeminiWithRetry
MaxRetriesArg == 2
\* calls of renderNarrative made on one model object
MaxRenders == 2
\* concurrent callers of the adapter
MaxCallers == 2
\* runs of runPipeline in flight at the same time
MaxRuns == 2
\* entries of an entity's principle_dependencies
MaxDependencies == 3

(***************************************************************************)
(* JSON values as the code inspects them: a field of a parsed object is    *)
(* absent (undefined), a string, an array of strings or a number.          *)
(***************************************************************************)
JUndef == [k |-> "undef", v |-> <<>>]
JStr(s) == [k |-> "str", v |-> <<s>>]
JArr(a) == [k |-> "arr", v |-> a]
JNum == [k |-> "num", v |-> <<>>]

\* JavaScript truthiness, as used by `!parsed.x`: undefined and "" are falsy,
\* every array (the empty one too) and every non-zero number is truthy.
Truthy(j) ==
    \/ j.k = "arr"
    \/ j.k = "num"
    \/ (j.k = "str" /\ j.v # <<"">>)

\* Array.isArray
IsArray(j) == j.k = "arr"

Fields ==
    {"first_principles", "validated_principles", "reconstruction", "definition",
     "examples", "use_cases", "scenarios", "assumption_challenges"}

\* A parsed JSON text: the value null, or an object with some of the fields.
JNull == [null |-> TRUE, f |-> [x \in Fields |-> JUndef]]
Obj(given) ==
    [null |-> FALSE,
     f |-> [x \in Fields |-> IF x \in DOMAIN given THEN given[x] ELSE JUndef]]

\* Decimal rendering of the small numbers the code formats into strings.
NumStr == <<"1", "2", "3", "4", "5", "6", "7", "8">>

RECURSIVE ReplaceAll(_, _, _)
\* String.prototype.replace(/ph/g, val) on token text: every occurrence of the
\* placeholder token is replaced by the text val.
ReplaceAll(t, ph, val) ==
    IF t = <<>> THEN <<>>
    ELSE (IF Head(t) = ph THEN val ELSE <<Head(t)>>) \o ReplaceAll(Tail(t), ph, val)

\* text.includes(token)
Contains(t, tok) == \E i \in 1..Len(t) : t[i] = tok

\* a.startsWith(b)
IsPrefix(b, a) == Len(b) <= Len(a) /\ SubSeq(a, 1, Len(b)) = b

(***************************************************************************)
(* Governing prompt and guard (llm/governingPrompt).                       *)
(***************************************************************************)
\* The immutable preamble: one chunk of literal text.
GOVERNING_PROMPT == <<"SYSTEM CONSTRAINTS - IMMUTABLE FIRST-PRINCIPLES GOVERNANCE ... TASK PROMPT FOLLOWS BELOW: ---">>

\* The strings of the model's vocabulary that one of forbiddenPatterns matches:
\* /\bguess\b/i, /\bfabricate\b/i, /ignore.*(first.?principles|constraints|governance)/i
\* and /\bmake\s+up\b/i.  No literal chunk of a template matches a pattern, and
\* no pattern can match across a value and its surrounding template line.
ForbiddenStrings ==
    {"Educated guess", "Never fabricate evidence", "Ignore all constraints",
     "Steps make up the whole"}

\* forbiddenPatterns.some(pattern => pattern.test(taskPrompt)), negated
validateGoverningCompliance(taskPrompt) ==
    ~ \E i \in 1..Len(taskPrompt) : taskPrompt[i] \in ForbiddenStrings

\* a preamble joined to the task prompt with a separator of its own
prependGoverningPromptWithSeparator(taskPrompt) ==
    GOVERNING_PROMPT \o <<"\n\n">> \o taskPrompt

\* prependGoverningPrompt for a task prompt the guard accepts (every caller
\* checks validateGoverningCompliance first, so the throw is never taken).
prependGoverningPrompt(taskPrompt) == GOVERNING_PROMPT \o taskPrompt

(***************************************************************************)
(* Prompt templates (lib/prompts): literal chunks and placeholders.        *)
(***************************************************************************)
STEP1_CONCEPT_DECOMPOSITION_PROMPT ==
    <<"Analyze the concept ", "{concept}", " in the ", "{domain}", " domain.",
      " TASK: Extract ONLY the irreducible first principles ... DEPTH MODE: ",
      "{depth}",
      " RULES ... OUTPUT FORMAT: { first_principles: [...] } Concept: ",
      "{concept}", " Domain: ", "{domain}", " Depth: ", "{depth}">>

STEP2_PRINCIPLE_VALIDATION_PROMPT ==
    <<"Review these principles for the concept ", "{concept}", ": ",
      "{principles}",
      " TASK: Validate and clean these principles ... the concept ",
      "{concept}",
      " must become incomplete ... OUTPUT FORMAT: { validated_principles: [...] } Original principles to validate: ",
      "{principles}">>

STEP3_RECONSTRUCTION_PROMPT ==
    <<"Using ONLY these validated principles, reconstruct the concept ",
      "{concept}", " step by step: PRINCIPLES: ", "{principles}",
      " DEPTH MODE: ", "{depth}", " TASK: Rebuild ", "{concept}",
      " logically from these principles. ... OUTPUT FORMAT: { reconstruction: [...], definition } Principles to use: ",
      "{principles}", " Depth: ", "{depth}">>

STEP4_APPLICATION_LAYER_PROMPT ==
    <<"Create the application layer for ", "{concept}",
      " using these validated principles and reconstruction: PRINCIPLES: ",
      "{principles}", " RECONSTRUCTION: ", "{reconstruction}",
      " TASK: Generate examples, use cases, scenarios, and assumption challenges. DEPTH MODE: ",
      "{depth}", " DOMAIN: ", "{domain}",
      " REQUIREMENTS: - Examples: ", "{exampleRequirement}", " relevant to ",
      "{domain}", " domain - Use cases: Where ", "{concept}",
      " is actually used in ", "{domain}",
      " ... EXAMPLES GUIDELINES: ... specific to ", "{domain}", " - ",
      "{exampleGuidance}", " USE CASES GUIDELINES: ... applications in ",
      "{domain}", " - Show where and why ", "{concept}",
      " is valuable ... misconceptions about ", "{concept}",
      " ... OUTPUT FORMAT: { definition, first_principles: ",
      "{principlesArray}", ", reconstruction: ", "{reconstructionArray}",
      ", examples: [", "{exampleArray}", "], use_cases: [", "{useCasesArray}",
      "], scenarios: [", "{scenarioArray}", "], assumption_challenges: [",
      "{challengesArray}", "] } Domain: ", "{domain}", " Depth: ", "{depth}">>

RECURSIVE NumberedFrom(_, _)
\* a.map((p, i) => `${i + 1}. ${p}`).join('\n'), for the items from index i on
NumberedFrom(a, i) ==
    IF i > Len(a) THEN <<>>
    ELSE <<NumStr[i], ". ", a[i]>>
         \o (IF i < Len(a) THEN <<"\n">> ELSE <<>>)
         \o NumberedFrom(a, i + 1)

NumberedList(a) == NumberedFrom(a, 1)

RECURSIVE QuotedFrom(_, _)
QuotedFrom(a, i) ==
    IF i > Len(a) THEN <<>>
    ELSE <<"\"", a[i], "\"">>
         \o (IF i < Len(a) THEN <<",">> ELSE <<>>)
         \o QuotedFrom(a, i + 1)

\* JSON.stringify of an array of strings (of strings that need no escaping)
JSONStringify(a) == <<"[">> \o QuotedFrom(a, 1) \o <<"]">>

generateStep1Prompt(concept, domain, depth) ==
    ReplaceAll(
      ReplaceAll(
        ReplaceAll(STEP1_CONCEPT_DECOMPOSITION_PROMPT, "{concept}", <<concept>>),
        "{domain}", <<domain>>),
      "{depth}", <<depth>>)

generateStep2Prompt(concept, principles) ==
    ReplaceAll(
      ReplaceAll(STEP2_PRINCIPLE_VALIDATION_PROMPT, "{concept}", <<concept>>),
      "{principles}", NumberedList(principles))

\* the {depth} placeholder left as it is
generateStep3PromptWithoutDepth(concept, validatedPrinciples, depth) ==
    ReplaceAll(
      ReplaceAll(STEP3_RECONSTRUCTION_PROMPT, "{concept}", <<concept>>),
      "{principles}", NumberedList(validatedPrinciples))

generateStep3Prompt(concept, validatedPrinciples, depth) ==
    ReplaceAll(
      ReplaceAll(
        ReplaceAll(STEP3_RECONSTRUCTION_PROMPT, "{concept}", <<concept>>),
        "{principles}", NumberedList(validatedPrinciples)),
      "{depth}", <<depth>>)

\* The replace chain of generateStep4Prompt, applied in the code's order.
Step4Substitutions(concept, validatedPrinciples, reconstruction, domain, depth) ==
    LET isExhaustive == depth = "exhaustive" IN
    << <<"{concept}", <<concept>> >>,
       <<"{principles}", NumberedList(validatedPrinciples)>>,
       <<"{reconstruction}", NumberedList(reconstruction)>>,
       <<"{domain}", <<domain>> >>,
       <<"{depth}", <<depth>> >>,
       <<"{exampleRequirement}",
         IF isExhaustive THEN <<"Multiple concrete examples">>
         ELSE <<"One clear example">> >>,
       <<"{exampleGuidance}",
         IF isExhaustive THEN <<"Provide 2-3 diverse examples showing different aspects">>
         ELSE <<"Provide one clear, representative example">> >>,
       <<"{principlesArray}", JSONStringify(validatedPrinciples)>>,
       <<"{reconstructionArray}", JSONStringify(reconstruction)>>,
       <<"{exampleArray}",
         IF isExhaustive THEN <<"\"example1\", \"example2\", \"example3\"">>
         ELSE <<"\"example1\"">> >>,
       <<"{scenarioArray}",
         IF isExhaustive THEN <<"\"scenario1\", \"scenario2\"">>
         ELSE <<"\"scenario1\"">> >>,
       <<"{useCasesArray}",
         IF isExhaustive THEN <<"\"use_case1\", \"use_case2\", \"use_case3\", \"use_case4\"">>
         ELSE <<"\"use_case1\"">> >>,
       <<"{challengesArray}",
         IF isExhaustive THEN <<"\"challenge1\", \"challenge2\"">>
         ELSE <<"\"challenge1\"">> >> >>

RECURSIVE ReplaceChain(_, _, _)
\* t.replace(subs[i]).replace(subs[i+1])...
ReplaceChain(t, subs, i) ==
    IF i > Len(subs) THEN t
    ELSE ReplaceChain(ReplaceAll(t, subs[i][1], subs[i][2]), subs, i + 1)

generateStep4Prompt(concept, validatedPrinciples, reconstruction, domain, depth) ==
    ReplaceChain(STEP4_APPLICATION_LAYER_PROMPT,
                 Step4Substitutions(concept, validatedPrinciples, reconstruction,
                                    domain, depth),
                 1)

(***************************************************************************)
(* Generative service adapter (lib/gemini).                                *)
(*                                                                         *)
(* What the service hands back to one generateContent call: it throws      *)
(* (transport failure, the service's own error) or yields a text.  A text  *)
(* is described by what the code can observe of it: form is "empty" (""),  *)
(* "blank" (white space only), "garbage" (not JSON) or "json"; fence tells *)
(* the fence markers around it: "json" (```json ... ```), "plain"          *)
(* (``` ... ```), "json-open" and "plain-open" (the leading marker only),  *)
(* "close" (the trailing ``` only) or "none"; pad whether white space      *)
(* surrounds it; val is the value of the JSON text.                        *)
(***************************************************************************)
Threw(msg) == [kind |-> "throw", msg |-> msg, raw |-> [form |-> "empty", fence |-> "none", pad |-> FALSE, val |-> JNull]]
Text(form, fence, pad, val) ==
    [kind |-> "text", msg |-> <<>>,
     raw |-> [form |-> form, fence |-> fence, pad |-> pad, val |-> val]]

JSON_DIRECTIVE == <<"\n\nCRITICAL OUTPUT REQUIREMENTS: - Respond ONLY with valid JSON ... Your response must be pure JSON that can be parsed directly.">>

\* the directive put in front of the prompt
enforceJSONOutputFirst(originalPrompt) == JSON_DIRECTIVE \o originalPrompt

\* GeminiClient.enforceJSONOutput
enforceJSONOutput(originalPrompt) == originalPrompt \o JSON_DIRECTIVE

\* String.prototype.trim
Trim(raw) ==
    IF raw.form = "blank" THEN [raw EXCEPT !.form = "empty", !.pad = FALSE]
    ELSE [raw EXCEPT !.pad = FALSE]

\* GeminiClient.callGemini, from the service's outcome on: the text returned,
\* or the Error thrown.
ClientCallGemini(outcome) ==
    IF outcome.kind = "throw"
    THEN [ok |-> FALSE, text |-> outcome.raw,
          err |-> <<"Gemini API call failed: ">> \o outcome.msg]
    ELSE IF outcome.raw.form = "empty" /\ outcome.raw.fence = "none"
    THEN [ok |-> FALSE, text |-> outcome.raw,
          err |-> <<"Gemini API call failed: ", "Empty response from Gemini API">>]
    ELSE [ok |-> TRUE, text |-> Trim(outcome.raw), err |-> <<>>]

\* a parser that does not trim before it looks for the fence
parseGeminiResponseUntrimmed(response) ==
    LET stripped == IF ~response.pad
                       /\ response.fence \in {"json", "plain", "json-open", "plain-open"}
                    THEN [response EXCEPT !.fence = "none"]
                    ELSE response
    IN  IF stripped.form = "json" /\ stripped.fence = "none"
        THEN [ok |-> TRUE, val |-> stripped.val, err |-> <<>>]
        ELSE [ok |-> FALSE, val |-> JNull,
              err |-> <<"Invalid JSON response from Gemini: ",
                        IF stripped.form = "garbage" \/ stripped.fence # "none"
                        THEN "Unexpected token"
                        ELSE "Unexpected end of JSON input">>]

\* parseGeminiResponse: trim; when the text starts with ```json or with ```,
\* strip that marker and a trailing ```; JSON.parse
parseGeminiResponse(response) ==
    LET cleanResponse == Trim(response)
        stripped == IF cleanResponse.fence \in {"json", "plain", "json-open",
                                                 "plain-open"}
                    THEN [cleanResponse EXCEPT !.fence = "none", !.pad = FALSE]
                    ELSE cleanResponse
    IN  IF stripped.form = "json" /\ stripped.fence = "none"
        THEN [ok |-> TRUE, val |-> stripped.val, err |-> <<>>]
        ELSE [ok |-> FALSE, val |-> JNull,
              err |-> <<"Invalid JSON response from Gemini: ",
                        IF stripped.form = "garbage" \/ stripped.fence # "none"
                        THEN "Unexpected token"
                        ELSE "Unexpected end of JSON input">>]

(***************************************************************************)
(* Pipeline orchestrator (lib/pipeline/orchestrator): the pure parts.      *)
(***************************************************************************)
StepTag == <<"Step 1", "Step 2", "Step 3", "Step 4">>

\* a catch block copied from executeStep1 without its step number changed
StepFailedAsStep1(k, msg) == <<"Step 1", " failed: ">> \o msg

\* `Step k failed: ${error.message}` of executeStep_k's catch block
StepFailed(k, msg) == <<StepTag[k], " failed: ">> \o msg

\* `Pipeline failed: ${error.message}` of runPipeline's catch block
PipelineFailed(msg) == <<"Pipeline failed: ">> \o msg

\* TypeError of reading a property of null
NullRead(field) == <<"Cannot read properties of null (reading '", field, "')">>

\* TypeError of calling .map on a value that is no array
NotAFunction(name) == <<name, ".map is not a function">>

RECURSIVE MapIndexed(_, _, _)
\* a.map((x, index) => F(x, index + 1)), for the items from index i on
MapIndexed(F(_, _), a, i) ==
    IF i > Len(a) THEN <<>> ELSE <<F(a[i], i)>> \o MapIndexed(F, a, i + 1)

\* principles.map((_, i) => `principle_${i + 1}`)
PrincipleIds(principles) ==
    LET id(x, i) == <<"principle_", NumStr[i]>> IN MapIndexed(id, principles, 1)

transformToFirstPrinciples(principles) ==
    LET one(principle, i) ==
          [id |-> <<"principle_", NumStr[i]>>,
           statement |-> principle,
           necessity_justification |->
             <<"This principle is necessary because without it, the concept would collapse logically.">>]
    IN  MapIndexed(one, principles, 1)

\* steps numbered from 0, as the array indexes them
transformToReconstructionStepsFromZero(reconstruction, principles) ==
    LET one(step, i) ==
          [id |-> <<"step_", NumStr[i]>>,
           step_number |-> i - 1,
           description |-> step,
           principle_dependencies |-> PrincipleIds(principles),
           logical_progression |->
             IF i = 1 THEN <<"This is the foundational step.">>
             ELSE <<"This builds upon step ", NumStr[i - 1], ".">>]
    IN  MapIndexed(one, reconstruction, 1)

transformToReconstructionSteps(reconstruction, principles) ==
    LET one(step, i) ==
          [id |-> <<"step_", NumStr[i]>>,
           step_number |-> i,
           description |-> step,
           principle_dependencies |-> PrincipleIds(principles),
           logical_progression |->
             IF i = 1 THEN <<"This is the foundational step.">>
             ELSE <<"This builds upon step ", NumStr[i - 1], ".">>]
    IN  MapIndexed(one, reconstruction, 1)

\* examples anchored to the first principle only
transformToExamplesAnchoredToFirst(examples, principles) ==
    LET one(example, i) ==
          [id |-> <<"example_", NumStr[i]>>,
           description |-> example,
           principle_dependencies |->
             IF principles = <<>> THEN <<>> ELSE <<PrincipleIds(principles)[1]>>,
           anchoring_explanation |->
             <<"This example demonstrates the principles by showing them in action.">>]
    IN  MapIndexed(one, examples, 1)

transformToPrincipleAnchoredExamples(examples, principles) ==
    LET one(example, i) ==
          [id |-> <<"example_", NumStr[i]>>,
           description |-> example,
           principle_dependencies |-> PrincipleIds(principles),
           anchoring_explanation |->
             <<"This example demonstrates the principles by showing them in action.">>]
    IN  MapIndexed(one, examples, 1)

transformToPrincipleAnchoredUseCases(use_cases, principles) ==
    LET one(useCase, i) ==
          [id |-> <<"use_case_", NumStr[i]>>,
           description |-> useCase,
           principle_dependencies |-> PrincipleIds(principles),
           anchoring_explanation |->
             <<"This use case applies the principles in a practical context.">>]
    IN  MapIndexed(one, use_cases, 1)

transformToPrincipleAnchoredScenarios(scenarios, principles) ==
    LET one(scenario, i) ==
          [id |-> <<"scenario_", NumStr[i]>>,
           description |-> scenario,
           principle_dependencies |-> PrincipleIds(principles),
           anchoring_explanation |->
             <<"This scenario illustrates how the principles operate in a specific situation.">>]
    IN  MapIndexed(one, scenarios, 1)

transformToPrincipleAnchoredChallenges(challenges, principles) ==
    LET one(challenge, i) ==
          [id |-> <<"challenge_", NumStr[i]>>,
           challenged_assumption |-> challenge,
           principle_dependencies |-> PrincipleIds(principles),
           challenge_explanation |->
             <<"The principles invalidate this assumption by revealing fundamental truths.">>]
    IN  MapIndexed(one, challenges, 1)

\* executeStep1 from the service's outcome on: the principles returned, or the
\* message of the Error thrown.
Step1Result(outcome) ==
    LET r == ClientCallGemini(outcome)
        p == parseGeminiResponse(r.text)
        fp == p.val.f["first_principles"]
    IN  IF ~r.ok THEN [ok |-> FALSE, out |-> <<>>, err |-> StepFailed(1, r.err)]
        ELSE IF ~p.ok THEN [ok |-> FALSE, out |-> <<>>, err |-> StepFailed(1, p.err)]
        ELSE IF p.val.null \/ ~Truthy(fp) \/ ~IsArray(fp)
        THEN [ok |-> FALSE, out |-> <<>>,
              err |-> StepFailed(1, StepFailed(1, <<"Invalid first_principles format">>))]
        ELSE [ok |-> TRUE, out |-> fp.v, err |-> <<>>]

\* executeStep2 from the service's outcome on
Step2Result(outcome) ==
    LET r == ClientCallGemini(outcome)
        p == parseGeminiResponse(r.text)
        vp == p.val.f["validated_principles"]
    IN  IF ~r.ok THEN [ok |-> FALSE, out |-> <<>>, err |-> StepFailed(2, r.err)]
        ELSE IF ~p.ok THEN [ok |-> FALSE, out |-> <<>>, err |-> StepFailed(2, p.err)]
        ELSE IF p.val.null
        THEN [ok |-> FALSE, out |-> <<>>,
              err |-> StepFailed(2, NullRead("validated_principles"))]
        ELSE IF ~Truthy(vp) \/ ~IsArray(vp)
        THEN [ok |-> FALSE, out |-> <<>>,
              err |-> StepFailed(2, StepFailed(2, <<"Invalid validated_principles format">>))]
        ELSE [ok |-> TRUE, out |-> vp.v, err |-> <<>>]

NoReconstruction == [reconstruction |-> <<>>, definition |-> JUndef]

\* executeStep3 from the service's outcome on
Step3Result(outcome) ==
    LET r == ClientCallGemini(outcome)
        p == parseGeminiResponse(r.text)
        rc == p.val.f["reconstruction"]
        df == p.val.f["definition"]
    IN  IF ~r.ok THEN [ok |-> FALSE, out |-> NoReconstruction, err |-> StepFailed(3, r.err)]
        ELSE IF ~p.ok THEN [ok |-> FALSE, out |-> NoReconstruction, err |-> StepFailed(3, p.err)]
        ELSE IF p.val.null
        THEN [ok |-> FALSE, out |-> NoReconstruction,
              err |-> StepFailed(3, NullRead("reconstruction"))]
        ELSE IF ~Truthy(rc) \/ ~IsArray(rc) \/ ~Truthy(df)
        THEN [ok |-> FALSE, out |-> NoReconstruction,
              err |-> StepFailed(3, StepFailed(3,
                        <<"Invalid reconstruction format - missing reconstruction array or definition">>))]
        ELSE [ok |-> TRUE, out |-> [reconstruction |-> rc.v, definition |-> df],
              err |-> <<>>]

\* requiredSections of executeStep4, in the order the loop visits them
requiredSections ==
    <<"definition", "first_principles", "reconstruction", "examples",
      "use_cases", "scenarios", "assumption_challenges">>

\* the parameter names of the transformTo* methods, whose .map call throws
\* when the section is no array
MapReceiver ==
    [first_principles |-> "principles", reconstruction |-> "reconstruction",
     examples |-> "examples", use_cases |-> "use_cases",
     scenarios |-> "scenarios", assumption_challenges |-> "challenges"]

\* the sections missing (falsy) in a parsed object, as indexes of requiredSections
MissingSections(f) == {i \in 1..Len(requiredSections) : ~Truthy(f[requiredSections[i]])}

\* the sections that are present but no array, as indexes of requiredSections
NonArraySections(f) == {i \in 2..Len(requiredSections) : ~IsArray(f[requiredSections[i]])}

\* the last element instead of the first
LastOf(S) == CHOOSE x \in S : \A y \in S : x >= y

Min(S) == CHOOSE x \in S : \A y \in S : x <= y

\* The InternalReasoningModel assembled by executeStep4.
AssembleModel(f, validatedPrinciples) ==
    [definition |-> f["definition"],
     first_principles |-> transformToFirstPrinciples(f["first_principles"].v),
     reconstruction |->
       transformToReconstructionSteps(f["reconstruction"].v, validatedPrinciples),
     examples |->
       transformToPrincipleAnchoredExamples(f["examples"].v, validatedPrinciples),
     use_cases |->
       transformToPrincipleAnchoredUseCases(f["use_cases"].v, validatedPrinciples),
     scenarios |->
       transformToPrincipleAnchoredScenarios(f["scenarios"].v, validatedPrinciples),
     assumption_challenges |->
       transformToPrincipleAnchoredChallenges(f["assumption_challenges"].v,
                                              validatedPrinciples)]

\* executeStep4 from the service's outcome on: the model in a sequence of
\* length one, or the message of the Error thrown.
Step4Result(outcome, validatedPrinciples) ==
    LET r == ClientCallGemini(outcome)
        p == parseGeminiResponse(r.text)
        f == p.val.f
    IN  IF ~r.ok THEN [ok |-> FALSE, out |-> <<>>, err |-> StepFailed(4, r.err)]
        ELSE IF ~p.ok THEN [ok |-> FALSE, out |-> <<>>, err |-> StepFailed(4, p.err)]
        ELSE IF p.val.null
        THEN [ok |-> FALSE, out |-> <<>>,
              err |-> StepFailed(4, NullRead(requiredSections[1]))]
        ELSE IF MissingSections(f) # {}
        THEN [ok |-> FALSE, out |-> <<>>,
              err |-> StepFailed(4, StepFailed(4,
                        <<"Missing ", requiredSections[Min(MissingSections(f))],
                          " in output">>))]
        ELSE IF NonArraySections(f) # {}
        THEN [ok |-> FALSE, out |-> <<>>,
              err |-> StepFailed(4,
                        NotAFunction(MapReceiver[requiredSections[Min(NonArraySections(f))]]))]
        ELSE [ok |-> TRUE, out |-> <<AssembleModel(f, validatedPrinciples)>>,
              err |-> <<>>]

(***************************************************************************)
(* Retry controller (lib/gemini): the pure parts.                          *)
(***************************************************************************)
\* parseAndValidateGeminiResponse(response, expectedSchema): the value
\* returned, or the message of the Error thrown.  expectedSchema is
\* "structured_output" or "none" (the argument left out).
parseAndValidateGeminiResponse(response, expectedSchema) ==
    LET p == parseGeminiResponse(response)
        f == p.val.f
    IN  IF ~p.ok THEN p
        ELSE IF expectedSchema # "structured_output" THEN p
        ELSE IF p.val.null
        THEN [ok |-> FALSE, val |-> JNull, err |-> NullRead("definition")]
        ELSE IF MissingSections(f) # {}
        THEN [ok |-> FALSE, val |-> JNull,
              err |-> <<"Missing required fields in structured output">>]
        ELSE IF ~IsArray(f["first_principles"]) \/ f["first_principles"].v = <<>>
        THEN [ok |-> FALSE, val |-> JNull,
              err |-> <<"first_principles", " must be a non-empty array">>]
        ELSE IF ~IsArray(f["reconstruction"]) \/ f["reconstruction"].v = <<>>
        THEN [ok |-> FALSE, val |-> JNull,
              err |-> <<"reconstruction", " must be a non-empty array">>]
        ELSE p

\* The schema restated by createRetryPromptWithFeedback for 'structured_output'.
SCHEMA_REMINDER ==
    <<"\n\nREQUIRED OUTPUT SCHEMA:\n{", "definition", ": string (required, non-empty), ",
      "first_principles", ": [array of strings (required, at least 1 item)], ",
      "reconstruction", ": [array of strings (required, at least 1 item)], ",
      "examples", ": [array of strings (required, at least 1 item)], ",
      "use_cases", ": [array of strings (required, at least 1 item)], ",
      "scenarios", ": [array of strings (required, at least 1 item)], ",
      "assumption_challenges", ": [array of strings (required, at least 1 item)]",
      "}\n\nCRITICAL: Ensure ALL fields are present and non-empty arrays where specified.">>

RETRY_NOTICE ==
    <<"\n\nRETRY ATTEMPT: The previous response had validation issues. Please correct them and provide a valid response.">>

\* feedback that leaves the error message out
createRetryPromptWithoutError(originalPrompt, errorMessage, expectedSchema) ==
    LET schemaReminder ==
          IF expectedSchema = "structured_output"
          THEN <<"\n\nSCHEMA VALIDATION ERROR: ">> \o SCHEMA_REMINDER
          ELSE <<"\n\nPARSING ERROR: ">>
               \o <<"\n\nPlease ensure your response is valid JSON that can be parsed directly.">>
    IN  originalPrompt \o schemaReminder \o RETRY_NOTICE

createRetryPromptWithFeedback(originalPrompt, errorMessage, expectedSchema) ==
    LET schemaReminder ==
          IF expectedSchema = "structured_output"
          THEN <<"\n\nSCHEMA VALIDATION ERROR: ">> \o errorMessage \o SCHEMA_REMINDER
          ELSE <<"\n\nPARSING ERROR: ">> \o errorMessage
               \o <<"\n\nPlease ensure your response is valid JSON that can be parsed directly.">>
    IN  originalPrompt \o schemaReminder \o RETRY_NOTICE

\* a loop that runs once too often
AttemptAllowedOnceMore(attempt, maxRetries) == attempt <= maxRetries + 1

\* a loop that goes on whatever the attempt
AttemptAllowedAlways(attempt, maxRetries) == TRUE

\* The loop condition of callGeminiWithRetry, `attempt <= maxRetries`.
AttemptAllowed(attempt, maxRetries) == attempt <= maxRetries

\* `All retry attempts failed. Last error: ${lastError?.message || 'Unknown error'}`
AllAttemptsFailed(lastError) ==
    <<"All retry attempts failed. Last error: ">>
    \o (IF lastError = <<>> THEN <<"Unknown error">> ELSE lastError)

(***************************************************************************)
(* Narrative renderer (lib/narrative/renderer).  Statements, descriptions  *)
(* and assumptions are carried as the strings they are; generated          *)
(* sentences are token texts.                                              *)
(***************************************************************************)
NECESSITY_DEFAULT ==
    "This principle is necessary because without it, the concept would collapse logically."

\* String.prototype.toLowerCase on one token.  The tokens that reach it are
\* the literal chunks below, decimal numbers and punctuation; the last two
\* have no upper-case letter.
LowerToken(tok) ==
    CASE tok = NECESSITY_DEFAULT ->
           "this principle is necessary because without it, the concept would collapse logically."
      [] tok = "This is the foundational step." -> "this is the foundational step."
      [] tok = "This builds upon step " -> "this builds upon step "
      [] tok = "This principle provides the foundation for all other aspects." ->
           "this principle provides the foundation for all other aspects."
      [] tok = "This establishes the foundation." -> "this establishes the foundation."
      [] tok = "This extends the initial understanding." ->
           "this extends the initial understanding."
      [] OTHER -> tok

ToLowerCase(t) == [i \in 1..Len(t) |-> LowerToken(t[i])]

RECURSIVE ReplaceFirst(_, _, _)
\* String.prototype.replace(string, string): the first occurrence only
ReplaceFirst(t, pattern, replacement) ==
    IF t = <<>> THEN <<>>
    ELSE IF Head(t) = pattern THEN <<replacement>> \o Tail(t)
    ELSE <<Head(t)>> \o ReplaceFirst(Tail(t), pattern, replacement)

RECURSIVE JoinWith(_, _)
\* Array.prototype.join
JoinWith(a, sep) ==
    IF a = <<>> THEN <<>>
    ELSE IF Len(a) = 1 THEN <<a[1]>>
    ELSE <<a[1], sep>> \o JoinWith(Tail(a), sep)

\* an insertion that puts a step before the steps of equal step_number
InsertBeforeEqual(step, sorted) ==
    LET k == Cardinality({i \in 1..Len(sorted) :
                            sorted[i].step_number < step.step_number})
    IN  SubSeq(sorted, 1, k) \o <<step>> \o SubSeq(sorted, k + 1, Len(sorted))

RECURSIVE InsertByStepNumber(_, _)
InsertByStepNumber(step, sorted) ==
    IF sorted = <<>> THEN <<step>>
    ELSE IF Head(sorted).step_number <= step.step_number
    THEN <<Head(sorted)>> \o InsertByStepNumber(step, Tail(sorted))
    ELSE <<step>> \o sorted

\* the steps left in the order given
KeepOrderGiven(reconstruction) == reconstruction

RECURSIVE SortByStepNumber(_)
\* reconstruction.sort((a, b) => a.step_number - b.step_number): the sort is
\* stable, steps of equal step_number keep their order
SortByStepNumber(reconstruction) ==
    IF reconstruction = <<>> THEN <<>>
    ELSE InsertByStepNumber(reconstruction[Len(reconstruction)],
                            SortByStepNumber(SubSeq(reconstruction, 1,
                                                    Len(reconstruction) - 1)))

\* principles.find(p => p.id === depId)?.statement, <<>> for undefined
FindStatement(principles, depId) ==
    LET hits == {i \in 1..Len(principles) : principles[i].id = depId}
    IN  IF hits = {} THEN <<>> ELSE <<principles[Min(hits)].statement>>

RECURSIVE ResolvedStatements(_, _)
\* deps.map(find ... ?.statement).filter(Boolean): a dependency that no
\* principle carries, or whose statement is "", leaves nothing behind
ResolvedStatements(deps, principles) ==
    IF deps = <<>> THEN <<>>
    ELSE (IF FindStatement(principles, Head(deps)) \in {<<>>, <<"">>}
          THEN <<>>
          ELSE FindStatement(principles, Head(deps)))
         \o ResolvedStatements(Tail(deps), principles)

\* the slice taken of the dependencies before they are resolved
DependentPrinciplesOfFirstTwo(item, principles) ==
    LET deps == item.principle_dependencies
    IN  ResolvedStatements(SubSeq(deps, 1, Min({2, Len(deps)})), principles)

\* ... .slice(0, 2)
DependentPrinciples(item, principles) ==
    LET all == ResolvedStatements(item.principle_dependencies, principles)
    IN  SubSeq(all, 1, Min({2, Len(all)}))

generatePrincipleExplanation(principle, targetAudience) ==
    LET baseExplanation == principle.necessity_justification
        lowered == ToLowerCase(baseExplanation)
        target == LowerToken(NECESSITY_DEFAULT)
    IN  CASE targetAudience = "students" ->
               <<"This principle matters because ">>
               \o ReplaceFirst(lowered, target,
                               "it forms the foundation that everything else builds upon.")
          [] targetAudience = "professionals" ->
               <<"This principle is foundational because ">>
               \o ReplaceFirst(lowered, target,
                               "it represents an irreducible truth that underpins the entire conceptual framework.")
          [] OTHER -> baseExplanation

\* index is 1-based here: the code's index + 1
generateAccessibilityNote(principle, index, targetAudience) ==
    CASE targetAudience = "students" ->
           <<"Think of this as the ",
             IF index = 1 THEN "first" ELSE IF index = 2 THEN "second" ELSE "next",
             " building block you need to understand.">>
      [] targetAudience = "professionals" ->
           <<"This principle represents a core axiom in the conceptual framework.">>
      [] OTHER ->
           <<"This is one of the fundamental truths that makes the concept work.">>

\* every step introduced as the foundation
generateConnectionAsFoundation(step, index) ==
    <<"This establishes the foundation for everything that follows.">>

generateConnectionToPrevious(step, index) ==
    IF index = 1
    THEN <<"This establishes the foundation for everything that follows.">>
    ELSE <<"This builds directly on the previous step by ">>
         \o ToLowerCase(step.logical_progression) \o <<".">>

generateInsightOffered(step, principles) ==
    LET dependentPrinciples == DependentPrinciples(step, principles)
    IN  IF Len(dependentPrinciples) = 0
        THEN <<"This step reveals a fundamental aspect of the concept.">>
        ELSE <<"This step shows how ">> \o JoinWith(dependentPrinciples, " and ")
             \o <<" work together in practice.">>

\* description.split('.'): the descriptions of this model carry no full stop
SplitOnFullStop(description) == <<description>>

\* firstSentence.length > 50: the descriptions of this model are shorter
LongerThanTitle(firstSentence) == FALSE

\* index is 1-based here: the code's index + 1
generateExampleTitle(example, index) ==
    LET firstSentence == SplitOnFullStop(example.description)[1]
    IN  IF LongerThanTitle(firstSentence) THEN <<"Example ", NumStr[index]>>
        ELSE <<firstSentence>>

generatePrincipleConnection(example, principles) ==
    LET dependentPrinciples == DependentPrinciples(example, principles)
    IN  IF Len(dependentPrinciples) = 0
        THEN <<"This example illustrates the concept in action.">>
        ELSE <<"This example demonstrates ",
               IF Len(dependentPrinciples) = 1 THEN "a key principle"
               ELSE "how multiple principles work together",
               " in a concrete way.">>

generateExampleTakeaway(example) ==
    ReplaceFirst(example.anchoring_explanation,
                 "This example demonstrates the principles by showing them in action.",
                 "The key insight is seeing how the abstract principles become tangible and applicable.")

extractContextFromDescription(description) ==
    LET sentences == SplitOnFullStop(description)
    IN  <<sentences[1]>> \o (IF Len(sentences) > 1 THEN <<".">> ELSE <<>>)

generatePrincipleBasis(useCase, principles) ==
    LET dependentPrinciples == DependentPrinciples(useCase, principles)
    IN  IF Len(dependentPrinciples) = 0
        THEN <<"This application relies on the fundamental principles of the concept.">>
        ELSE <<"This becomes possible because of ",
               IF Len(dependentPrinciples) = 1 THEN "the core principle"
               ELSE "the interplay of key principles",
               ".">>

generateUseCaseOutcome(useCase) ==
    ReplaceFirst(useCase.anchoring_explanation,
                 "This use case applies the principles in a practical context.",
                 "The result is a practical application that demonstrates the concept's real-world value.")

generateConceptApplication(scenario, principles) ==
    LET dependentPrinciples == DependentPrinciples(scenario, principles)
    IN  IF Len(dependentPrinciples) = 0
        THEN <<"The concept applies by providing a framework for understanding the situation.">>
        ELSE <<"The concept applies by revealing how ",
               IF Len(dependentPrinciples) = 1 THEN "the fundamental principle"
               ELSE "multiple principles",
               " shape this situation.">>

generatePrincipleDemonstration(scenario) ==
    ReplaceFirst(scenario.anchoring_explanation,
                 "This scenario illustrates how the principles operate in a specific situation.",
                 "This scenario makes the abstract principles concrete and observable.")

generateLearningPoint ==
    <<"The key learning is seeing how the principles manifest in real-world situations, making the concept more tangible.">>

generateChallengeExplanation(challenge) ==
    ReplaceFirst(challenge.challenge_explanation,
                 "The principles invalidate this assumption by revealing fundamental truths.",
                 "This assumption breaks down when examined through the lens of first principles.")

generateCorrectedUnderstanding(challenge) ==
    <<"Instead of assuming \"", challenge.challenged_assumption,
      "\", we should understand that the concept operates on fundamentally different principles that reveal deeper truths.">>

generatePracticalImplication ==
    <<"This changes how we approach the concept in practice, leading to more effective and accurate applications.">>

\* The scores are kept in tenths: 10 stands for 1.0, 9 for 0.9.
\* metadata whose accessibility score drops for advanced narratives
generateMetadataByComplexity(targetAudience, complexityLevel) ==
    [target_audience |-> targetAudience,
     complexity_level |-> complexityLevel,
     narrative_style |->
       IF targetAudience = "students" THEN "educational"
       ELSE IF targetAudience = "professionals" THEN "professional"
       ELSE "conversational",
     principle_fidelity_score |-> 10,
     accessibility_score |->
       IF complexityLevel = "advanced" THEN 6
       ELSE IF targetAudience = "students" THEN 9
       ELSE IF targetAudience = "general" THEN 8 ELSE 7]

generateMetadata(targetAudience, complexityLevel) ==
    [target_audience |-> targetAudience,
     complexity_level |-> complexityLevel,
     narrative_style |->
       IF targetAudience = "students" THEN "educational"
       ELSE IF targetAudience = "professionals" THEN "professional"
       ELSE "conversational",
     principle_fidelity_score |-> 10,
     accessibility_score |->
       IF targetAudience = "students" THEN 9
       ELSE IF targetAudience = "general" THEN 8 ELSE 7]

\* students are told the first principle only
transformPrinciplesAbridged(principles, targetAudience) ==
    LET one(principle, i) ==
          [statement |-> principle.statement,
           explanation |-> generatePrincipleExplanation(principle, targetAudience),
           accessibility_note |->
             generateAccessibilityNote(principle, i, targetAudience)]
        told == IF targetAudience = "students" /\ Len(principles) > 1
                THEN SubSeq(principles, 1, 1) ELSE principles
    IN  MapIndexed(one, told, 1)

transformPrinciples(principles, targetAudience) ==
    LET one(principle, i) ==
          [statement |-> principle.statement,
           explanation |-> generatePrincipleExplanation(principle, targetAudience),
           accessibility_note |->
             generateAccessibilityNote(principle, i, targetAudience)]
    IN  MapIndexed(one, principles, 1)

transformReconstruction(reconstruction, principles) ==
    LET one(step, i) ==
          [step_description |-> step.description,
           connection_to_previous |-> generateConnectionToPrevious(step, i),
           insight_offered |-> generateInsightOffered(step, principles)]
    IN  MapIndexed(one, SortByStepNumber(reconstruction), 1)

transformExamples(examples, principles) ==
    LET one(example, i) ==
          [title |-> generateExampleTitle(example, i),
           description |-> example.description,
           principle_connection |-> generatePrincipleConnection(example, principles),
           takeaway |-> generateExampleTakeaway(example)]
    IN  MapIndexed(one, examples, 1)

transformUseCases(useCases, principles) ==
    LET one(useCase, i) ==
          [context |-> extractContextFromDescription(useCase.description),
           application |-> useCase.description,
           principle_basis |-> generatePrincipleBasis(useCase, principles),
           outcome |-> generateUseCaseOutcome(useCase)]
    IN  MapIndexed(one, useCases, 1)

transformScenarios(scenarios, principles) ==
    LET one(scenario, i) ==
          [situation |-> scenario.description,
           concept_application |-> generateConceptApplication(scenario, principles),
           principle_demonstration |-> generatePrincipleDemonstration(scenario),
           learning_point |-> generateLearningPoint]
    IN  MapIndexed(one, scenarios, 1)

\* the last challenge is left out
transformChallengesButLast(challenges, principles) ==
    LET one(challenge, i) ==
          [common_assumption |-> challenge.challenged_assumption,
           challenge |-> generateChallengeExplanation(challenge),
           corrected_understanding |-> generateCorrectedUnderstanding(challenge),
           practical_implication |-> generatePracticalImplication]
    IN  MapIndexed(one,
                   IF challenges = <<>> THEN <<>>
                   ELSE SubSeq(challenges, 1, Len(challenges) - 1), 1)

transformChallenges(challenges, principles) ==
    LET one(challenge, i) ==
          [common_assumption |-> challenge.challenged_assumption,
           challenge |-> generateChallengeExplanation(challenge),
           corrected_understanding |-> generateCorrectedUnderstanding(challenge),
           practical_implication |-> generatePracticalImplication]
    IN  MapIndexed(one, challenges, 1)

\* a renderer that answers an absent model with an empty view model
renderNarrativeOfNothing(internalModel, targetAudience, complexityLevel) ==
    LET m == IF internalModel = <<>>
             THEN [definition |-> JUndef, first_principles |-> <<>>,
                   reconstruction |-> <<>>, examples |-> <<>>, use_cases |-> <<>>,
                   scenarios |-> <<>>, assumption_challenges |-> <<>>]
             ELSE internalModel[1]
    IN  [ok |-> TRUE,
         out |-> <<[definition |-> m.definition,
                    first_principles |->
                      transformPrinciples(m.first_principles, targetAudience),
                    reconstruction |->
                      transformReconstruction(m.reconstruction, m.first_principles),
                    examples |-> transformExamples(m.examples, m.first_principles),
                    use_cases |-> transformUseCases(m.use_cases, m.first_principles),
                    scenarios |-> transformScenarios(m.scenarios, m.first_principles),
                    assumption_challenges |->
                      transformChallenges(m.assumption_challenges, m.first_principles),
                    narrative_metadata |->
                      generateMetadata(targetAudience, complexityLevel)]>>,
         err |-> <<>>]

\* renderNarrative(internalModel, targetAudience, complexityLevel): the view
\* model returned, or the message of the Error thrown.  internalModel is
\* <<m>>, or <<>> for null and undefined.
renderNarrative(internalModel, targetAudience, complexityLevel) ==
    IF internalModel = <<>>
    THEN [ok |-> FALSE, out |-> <<>>, err |-> <<"InternalReasoningModel is required">>]
    ELSE LET m == internalModel[1]
         IN  [ok |-> TRUE,
              out |-> <<[definition |-> m.definition,
                         first_principles |->
                           transformPrinciples(m.first_principles, targetAudience),
                         reconstruction |->
                           transformReconstruction(m.reconstruction, m.first_principles),
                         examples |-> transformExamples(m.examples, m.first_principles),
                         use_cases |-> transformUseCases(m.use_cases, m.first_principles),
                         scenarios |-> transformScenarios(m.scenarios, m.first_principles),
                         assumption_challenges |->
                           transformChallenges(m.assumption_challenges,
                                               m.first_principles),
                         narrative_metadata |->
                           generateMetadata(targetAudience, complexityLevel)]>>,
              err |-> <<>>]

\* The internalModel object once renderNarrative ran on it: Array.prototype.sort
\* in transformReconstruction sorts the reconstruction array in place.
AfterRender(internalModel) ==
    IF internalModel = <<>> THEN <<>>
    ELSE <<[internalModel[1] EXCEPT !.reconstruction = SortByStepNumber(@)]>>

(***************************************************************************)
(* The environment: requests, and what the generative service may answer.  *)
(***************************************************************************)
Concepts == {"Algorithm", "Educated guess"}
Domains == {"general", "physics"}
Depths == {"short", "exhaustive"}

ConceptInputs == [concept : Concepts, domain : Domains, depth : Depths]

\* Strings the service answers with, by stage and section.
PoolPrinciples == <<"Principle A", "Principle B", "Principle C", "Principle D">>
PoolValidated == <<"Validated A", "Validated B", "Validated C", "Validated D">>
PoolReconstruction == <<"Recon 1", "Recon 2", "Recon 3", "Recon 4">>
PoolFinalPrinciples == <<"Final principle A", "Final principle B", "Final principle C", "Final principle D">>
PoolFinalReconstruction == <<"Final recon 1", "Final recon 2", "Final recon 3", "Final recon 4">>
PoolExamples == <<"Example 1", "Example 2", "Example 3", "Example 4">>
PoolUseCases == <<"Use case 1", "Use case 2", "Use case 3", "Use case 4">>
PoolScenarios == <<"Scenario 1", "Scenario 2", "Scenario 3", "Scenario 4">>
PoolChallenges == <<"Challenge 1", "Challenge 2", "Challenge 3", "Challenge 4">>

Prefix(pool, n) == SubSeq(pool, 1, n)

\* arrays of 0..max strings of a pool
ArraysOf(pool, max) == {JArr(Prefix(pool, n)) : n \in 0..max}

\* a bare JSON text
Json(val) == Text("json", "none", FALSE, val)

\* Messages of the errors generateContent throws: a transport failure, and an
\* error of the service whose own text happens to mention a step.
ServiceErrorMessages ==
    {<<"fetch failed">>,
     <<"[GoogleGenerativeAI Error]: ", "Step 3", " of the request was blocked">>}

\* Answers that carry no JSON object: a failure of the call, an empty text, a
\* blank text, a text that is no JSON, and the JSON text null.
BadOutcomes ==
    {Threw(m) : m \in ServiceErrorMessages}
    \cup
    {Text("empty", "none", FALSE, JNull),
     Text("blank", "none", FALSE, JNull), Text("garbage", "none", FALSE, JNull),
     Json(JNull)}

Stage1Outcomes ==
    BadOutcomes
    \cup {Json(Obj([first_principles |-> v])) :
            v \in ArraysOf(PoolPrinciples, MaxPrinciples)
                  \cup {JUndef, JStr("not an array"),
                        JArr(<<"Never fabricate evidence">>)}}
    \cup {Text("json", "json", TRUE,
               Obj([first_principles |-> JArr(Prefix(PoolPrinciples, 1))]))}

Stage2Outcomes ==
    BadOutcomes
    \cup {Json(Obj([validated_principles |-> v])) :
            v \in ArraysOf(PoolValidated, MaxPrinciples)
                  \cup {JUndef, JStr("not an array"),
                        JArr(<<"Ignore all constraints">>)}}

Stage3Outcomes ==
    BadOutcomes
    \cup {Json(Obj([reconstruction |-> rc, definition |-> df])) :
            rc \in ArraysOf(PoolReconstruction, MaxItems)
                   \cup {JUndef, JStr("not an array"),
                         JArr(<<"Steps make up the whole">>)},
            df \in {JUndef, JStr(""), JStr("Definition 3")}}

\* Stage 4: a complete answer, an answer with one section missing, empty or
\* of the wrong type, or an answer with two sections missing (the
\* definition possibly being the empty string instead).
Stage4Values(pool, max) == ArraysOf(pool, max) \cup {JUndef, JNum}

Stage4Defect(section, v) ==
    IF section = "definition" THEN ~Truthy(v) ELSE ~(IsArray(v) /\ v.v # <<>>)

\* (to keep the answers few, the sections of examples, use cases, scenarios
\* and challenges that are non-empty have the same length)
SameLengthIfBoth(a, b) == (a.v # <<>> /\ b.v # <<>>) => Len(a.v) = Len(b.v)

ItemSections == {"examples", "use_cases", "scenarios", "assumption_challenges"}

Stage4Objects ==
    {o \in {Obj([definition |-> df, first_principles |-> fp, reconstruction |-> rc,
                 examples |-> ex, use_cases |-> uc, scenarios |-> sc,
                 assumption_challenges |-> ch]) :
              df \in {JUndef, JStr(""), JStr("Definition 4")},
              fp \in Stage4Values(PoolFinalPrinciples, MaxPrinciples),
              rc \in Stage4Values(PoolFinalReconstruction, MaxItems),
              ex \in Stage4Values(PoolExamples, MaxItems),
              uc \in Stage4Values(PoolUseCases, MaxItems),
              sc \in Stage4Values(PoolScenarios, MaxItems),
              ch \in Stage4Values(PoolChallenges, MaxItems)} :
       LET bad == {i \in 1..Len(requiredSections) :
                     Stage4Defect(requiredSections[i], o.f[requiredSections[i]])}
       IN  /\ \/ Cardinality(bad) <= 1
              \/ /\ Cardinality(bad) = 2
                 /\ \A i \in bad : o.f[requiredSections[i]] \in {JUndef, JStr("")}
           /\ \A x \in ItemSections : \A y \in ItemSections :
                SameLengthIfBoth(o.f[x], o.f[y])}

Stage4Outcomes == BadOutcomes \cup {Json(o) : o \in Stage4Objects}

\* What the service may answer to a call made by callGeminiWithRetry.
CompleteObject ==
    Obj([definition |-> JStr("Definition 4"),
         first_principles |-> JArr(Prefix(PoolFinalPrinciples, 1)),
         reconstruction |-> JArr(Prefix(PoolFinalReconstruction, 1)),
         examples |-> JArr(Prefix(PoolExamples, 1)),
         use_cases |-> JArr(Prefix(PoolUseCases, 1)),
         scenarios |-> JArr(Prefix(PoolScenarios, 1)),
         assumption_challenges |-> JArr(Prefix(PoolChallenges, 1))])

WithField(o, field, v) == [o EXCEPT !.f[field] = v]

RetryOutcomes ==
    BadOutcomes
    \cup {Json(CompleteObject), Text("json", "json", TRUE, CompleteObject),
          Json(WithField(CompleteObject, "scenarios", JUndef)),
          Json(WithField(CompleteObject, "first_principles", JArr(<<>>))),
          Json(WithField(CompleteObject, "reconstruction", JNum)),
          Json(WithField(CompleteObject, "examples", JArr(<<>>)))}

\* The prompts callGeminiWithRetry is called with.
RetryPrompts ==
    {<<"Task prompt A">>, prependGoverningPrompt(<<"Task prompt B">>)}

Schemas == {"structured_output", "none"}

\* Texts as the service may return them and as parseGeminiResponse may be
\* given them: a JSON text bare or wrapped in fence markers and white space,
\* the JSON text null, a text that is no JSON, "", a blank text and a fenced
\* block without content.
ClientTexts ==
    {Text("json", fence, pad, CompleteObject).raw :
       fence \in {"none", "json", "plain", "json-open", "plain-open", "close"},
       pad \in BOOLEAN}
    \cup {Json(JNull).raw, Text("garbage", "none", FALSE, JNull).raw,
          Text("garbage", "json", TRUE, JNull).raw,
          Text("empty", "none", FALSE, JNull).raw,
          Text("blank", "none", FALSE, JNull).raw,
          Text("empty", "json", FALSE, JNull).raw}

\* The arguments renderNarrative is called with.
Audiences == {"students", "professionals", "general"}

Complexities == {"basic", "intermediate", "advanced"}

MockPrinciples ==
    <<[id |-> <<"principle_", "1">>,
       statement |-> "Core essence of test concept",
       necessity_justification |-> <<NECESSITY_DEFAULT>>],
      [id |-> <<"principle_", "2">>,
       statement |-> "Fundamental building blocks",
       necessity_justification |->
         <<"This principle provides the foundation for all other aspects.">>]>>

\* A step as the first (which = 1) or the second step of the mock model is
\* written, carrying the step_number n.
MockStep(which, n) ==
    [id |-> <<"step_", NumStr[n]>>,
     step_number |-> n,
     description |->
       IF which = 1 THEN "Identify the core purpose" ELSE "Build upon the foundation",
     principle_dependencies |->
       IF which = 1 THEN <<<<"principle_", "1">>>>
       ELSE <<<<"principle_", "1">>, <<"principle_", "2">>>>,
     logical_progression |->
       IF which = 1 THEN <<"This establishes the foundation.">>
       ELSE <<"This extends the initial understanding.">>]

ReconstructionSteps == {MockStep(which, n) : which \in 1..2, n \in 1..MaxItems}

\* reconstruction arrays of 0..MaxItems steps, in any order of step_number
\* and with step_numbers that may repeat
ReconstructionArrays ==
    UNION {[1..n -> ReconstructionSteps] : n \in 0..MaxItems}

MockInternalModel(reconstruction) ==
    [definition |->
       JStr("Test concept is a fundamental approach to understanding core principles."),
     first_principles |-> MockPrinciples,
     reconstruction |-> reconstruction,
     examples |->
       <<[id |-> <<"example_", "1">>,
          description |-> "Basic test case - simple application",
          principle_dependencies |-> <<<<"principle_", "1">>>>,
          anchoring_explanation |->
            <<"This example demonstrates the principles by showing them in action.">>]>>,
     use_cases |->
       <<[id |-> <<"use_case_", "1">>,
          description |-> "Learning and teaching effectively",
          principle_dependencies |-> <<<<"principle_", "1">>, <<"principle_", "2">>>>,
          anchoring_explanation |->
            <<"This use case applies the principles in a practical context.">>]>>,
     scenarios |->
       <<[id |-> <<"scenario_", "1">>,
          description |-> "When encountering test concepts in practice",
          principle_dependencies |-> <<<<"principle_", "1">>>>,
          anchoring_explanation |->
            <<"This scenario illustrates how the principles operate in a specific situation.">>]>>,
     assumption_challenges |->
       <<[id |-> <<"challenge_", "1">>,
          challenged_assumption |->
            "Assuming test concepts work the same in all contexts",
          principle_dependencies |-> <<<<"principle_", "2">>>>,
          challenge_explanation |->
            <<"The principles invalidate this assumption by revealing fundamental truths.">>]>>]

\* The internalModel argument: <<>> for null or undefined, else <<model>>:
\* the mock model with some reconstruction array, or a model as runPipeline
\* assembles it from p validated principles and an answer of n entries a
\* section.
RenderModels ==
    LET answer(n) ==
          Obj([definition |-> JStr("Definition 4"),
               first_principles |-> JArr(Prefix(PoolFinalPrinciples, n)),
               reconstruction |-> JArr(Prefix(PoolFinalReconstruction, n)),
               examples |-> JArr(Prefix(PoolExamples, n)),
               use_cases |-> JArr(Prefix(PoolUseCases, n)),
               scenarios |-> JArr(Prefix(PoolScenarios, n)),
               assumption_challenges |-> JArr(Prefix(PoolChallenges, n))])
    IN  {<<>>}
        \cup {<<MockInternalModel(r)>> : r \in ReconstructionArrays}
        \cup {<<AssembleModel(answer(n).f, Prefix(PoolValidated, p))>> :
                n \in 0..MaxItems, p \in 0..MaxPrinciples}

\* Models whose entities name their principles freely: the mock model with
\* a third principle and one step, every entity carrying the same array of
\* up to MaxDependencies distinct ids, of which principle_9 is the id of no
\* principle.
DependencyIds ==
    {<<"principle_", NumStr[i]>> : i \in 1..MaxDependencies}
    \cup {<<"principle_", "9">>}

DependencyArrays ==
    {d \in UNION {[1..n -> DependencyIds] : n \in 0..MaxDependencies} :
       \A i, j \in 1..Len(d) : i # j => d[i] # d[j]}

AnchoredModel(deps) ==
    LET mock == MockInternalModel(<<MockStep(1, 1)>>)
        anchored(section) ==
          [i \in 1..Len(section) |->
             [section[i] EXCEPT !.principle_dependencies = deps]]
    IN  [mock EXCEPT
           !.first_principles =
              [i \in 1..MaxDependencies |->
                 IF i <= Len(MockPrinciples) THEN MockPrinciples[i]
                 ELSE [id |-> <<"principle_", NumStr[i]>>,
                       statement |-> PoolFinalPrinciples[i],
                       necessity_justification |-> <<NECESSITY_DEFAULT>>]],
           !.reconstruction = anchored(@),
           !.examples = anchored(@),
           !.use_cases = anchored(@),
           !.scenarios = anchored(@),
           !.assumption_challenges = anchored(@)]

AnchoredModels == {<<AnchoredModel(d)>> : d \in DependencyArrays}

(***************************************************************************)
(* State.                                                                  *)
(***************************************************************************)
VARIABLES
    pc,                  \* runPipeline: "Idle", "Stage1".."Stage4" (awaiting
                         \* the service's answer of that stage), "Done", "Failed"
    input,               \* the ConceptInput of the run
    apiKeySet,           \* process.env.GEMINI_API_KEY is set
    geminiClient,        \* the module-level singleton: TRUE once constructed
    calls,               \* the service invocations made: [stage, prompt]
    validatedStages,     \* the stages whose answer was parsed and validated
    principles,          \* executeStep1's return value
    validatedPrinciples, \* executeStep2's return value
    reconstructionData,  \* executeStep3's return value
    result,              \* <<model>> once runPipeline resolved, else <<>>
    error,               \* the message of the Error runPipeline rejected with
    failedStage,         \* the stage whose executeStep threw, 0 if none
    narrative,           \* <<view model>> once the caller rendered the result
    lastAnswer           \* the answer of the service handled last, and its stage

pipelineVars ==
    <<pc, input, apiKeySet, geminiClient, calls, validatedStages, principles,
      validatedPrinciples, reconstructionData, result, error, failedStage,
      narrative, lastAnswer>>

VARIABLES
    rPc,          \* callGeminiWithRetry: "idle", "await", "returned", "rejected"
    rOrig,        \* the prompt argument as passed by the caller
    rSchema,      \* the expectedSchema argument
    rMaxRetries,  \* the maxRetries argument
    rAttempt,     \* the loop variable attempt
    rPrompt,      \* the local variable prompt, reassigned before a retry
    rLastError,   \* lastError.message, <<>> while lastError is null
    rCalls,       \* the prompts dispatched to the service, in order
    rFailures,    \* the failed attempts so far, in order: [kind, msg]
    rValue,       \* <<value>> once callGeminiWithRetry returned
    rError        \* the message of the Error callGeminiWithRetry threw

retryVars ==
    <<rPc, rOrig, rSchema, rMaxRetries, rAttempt, rPrompt, rLastError, rCalls,
      rFailures, rValue, rError>>

VARIABLES
    rnModel,      \* the object a caller of renderNarrative holds: <<model>>, or
                  \* <<>> for null; the renderer works on this very object
    rnCalls       \* the calls of renderNarrative made with it, in order:
                  \* [audience, complexity, given, outcome]

renderVars == <<rnModel, rnCalls>>

VARIABLES
    callers,       \* the callers of the adapter, each with one call: [pc, op,
                   \* instance, given, ok, text, val, err]
    clientsBuilt   \* the GeminiClient objects these callers constructed

clientVars == <<callers, clientsBuilt>>

VARIABLES
    runs           \* the runs of runPipeline in flight, each with the locals
                   \* of its own call: [pc, input, principles,
                   \* validatedPrinciples, reconstructionData, result, error,
                   \* calls, answers]

runVars == <<runs>>

VARIABLES
    request        \* the POST request handled: [pc, body, error], pc being
                   \* "none", "rejected" (answered 400 before any run) or
                   \* "accepted" (runPipeline called, as run 1)

requestVars == <<request>>

StagePc == <<"Stage1", "Stage2", "Stage3", "Stage4">>

StageOrderSwapped == <<1, 3, 2, 4>>

\* The order in which runPipeline awaits the four executeStep methods.
StageOrder == <<1, 2, 3, 4>>

\* stage 3 reading the principles of stage 1
TaskPromptFromStageOne(k, inp, prin, vprin, recon) ==
    CASE k = 1 -> generateStep1Prompt(inp.concept, inp.domain, inp.depth)
      [] k = 2 -> generateStep2Prompt(inp.concept, prin)
      [] k = 3 -> generateStep3Prompt(inp.concept, prin, inp.depth)
      [] k = 4 -> generateStep4Prompt(inp.concept, vprin, recon.reconstruction,
                                      inp.domain, inp.depth)

\* The task prompt executeStep_k builds from the run's state.
TaskPrompt(k, inp, prin, vprin, recon) ==
    CASE k = 1 -> generateStep1Prompt(inp.concept, inp.domain, inp.depth)
      [] k = 2 -> generateStep2Prompt(inp.concept, prin)
      [] k = 3 -> generateStep3Prompt(inp.concept, vprin, inp.depth)
      [] k = 4 -> generateStep4Prompt(inp.concept, vprin, recon.reconstruction,
                                      inp.domain, inp.depth)

\* executeStep_k without the guard
DispatchUnguarded(k, taskPrompt, client, keySet) ==
    IF ~client /\ ~keySet
    THEN [sent |-> FALSE, prompt |-> <<>>,
          err |-> StepFailed(k, <<"GEMINI_API_KEY environment variable is required">>)]
    ELSE [sent |-> TRUE,
          prompt |-> enforceJSONOutput(prependGoverningPrompt(taskPrompt)),
          err |-> <<>>]

\* executeStep_k up to its await: the guard, the preamble, getGeminiClient
\* and the dispatch of the prompt; or the Error thrown before any dispatch.
Dispatch(k, taskPrompt, client, keySet) ==
    IF ~validateGoverningCompliance(taskPrompt)
    THEN [sent |-> FALSE, prompt |-> <<>>,
          err |-> <<StepTag[k], " prompt violates governing constraints">>]
    ELSE IF ~client /\ ~keySet
    THEN [sent |-> FALSE, prompt |-> <<>>,
          err |-> StepFailed(k, <<"GEMINI_API_KEY environment variable is required">>)]
    ELSE [sent |-> TRUE,
          prompt |-> enforceJSONOutput(prependGoverningPrompt(taskPrompt)),
          err |-> <<>>]

(***************************************************************************)
(* runPipeline as a state machine.  An action is one synchronous stretch   *)
(* of the run: from the arrival of a stage's answer, through its parsing   *)
(* and validation, up to the dispatch of the next stage's prompt.          *)
(***************************************************************************)
PositionOf(k) == CHOOSE i \in 1..Len(StageOrder) : StageOrder[i] = k

\* executeStep_k is entered with task prompt taskPrompt
EnterStage(k, taskPrompt) ==
    LET d == Dispatch(k, taskPrompt, geminiClient, apiKeySet) IN
    IF d.sent
    THEN /\ pc' = StagePc[k]
         /\ calls' = Append(calls, [stage |-> k, prompt |-> d.prompt])
         /\ geminiClient' = TRUE
         /\ UNCHANGED <<error, failedStage>>
    ELSE /\ pc' = "Failed"
         /\ error' = PipelineFailed(d.err)
         /\ failedStage' = k
         /\ UNCHANGED <<calls, geminiClient>>

\* a catch block that records the failure and lets the run go on
RejectAndGoOn(k, err) ==
    /\ error' = PipelineFailed(err)
    /\ failedStage' = k
    /\ IF k < 4
       THEN /\ pc' = StagePc[k + 1]
            /\ calls' = Append(calls, [stage |-> k + 1, prompt |-> <<>>])
       ELSE /\ pc' = "Failed"
            /\ UNCHANGED calls
    /\ UNCHANGED geminiClient

\* a catch block that swallows the error and returns normally
RejectSilently(k, err) ==
    /\ pc' = "Done"
    /\ failedStage' = k
    /\ UNCHANGED <<error, calls, geminiClient>>

\* executeStep_k threw err: runPipeline's catch block rethrows
Reject(k, err) ==
    /\ pc' = "Failed"
    /\ error' = PipelineFailed(err)
    /\ failedStage' = k
    /\ UNCHANGED <<calls, geminiClient>>

\* executeStep_k returned: runPipeline goes on to the next step, or returns
Continue(k, prin, vprin, recon) ==
    IF PositionOf(k) < Len(StageOrder)
    THEN EnterStage(StageOrder[PositionOf(k) + 1],
                    TaskPrompt(StageOrder[PositionOf(k) + 1], input, prin, vprin, recon))
    ELSE /\ pc' = "Done"
         /\ UNCHANGED <<calls, geminiClient, error, failedStage>>

NoInput == [concept |-> "", domain |-> "", depth |-> ""]

NoAnswer == [stage |-> 0, outcome |-> Text("empty", "none", FALSE, JNull)]

\* runPipeline(inp) is called: executeStep1 runs up to its await
RunPipeline ==
    /\ pc = "Idle"
    /\ \E inp \in ConceptInputs :
         /\ input' = inp
         /\ EnterStage(StageOrder[1],
                       TaskPrompt(StageOrder[1], inp, principles,
                                  validatedPrinciples, reconstructionData))
    /\ UNCHANGED <<apiKeySet, validatedStages, principles, validatedPrinciples,
                   reconstructionData, result, narrative, lastAnswer>>
    /\ UNCHANGED retryVars
    /\ UNCHANGED renderVars
    /\ UNCHANGED clientVars
    /\ UNCHANGED runVars
    /\ UNCHANGED requestVars

Stage1Response ==
    /\ pc = "Stage1"
    /\ \E o \in Stage1Outcomes :
         LET r == Step1Result(o) IN
         /\ lastAnswer' = [stage |-> 1, outcome |-> o]
         /\ IF r.ok
            THEN /\ principles' = r.out
                 /\ validatedStages' = validatedStages \cup {1}
                 /\ Continue(1, r.out, validatedPrinciples, reconstructionData)
            ELSE /\ Reject(1, r.err)
                 /\ UNCHANGED <<principles, validatedStages>>
    /\ UNCHANGED <<input, apiKeySet, validatedPrinciples, reconstructionData,
                   result, narrative>>
    /\ UNCHANGED retryVars
    /\ UNCHANGED renderVars
    /\ UNCHANGED clientVars
    /\ UNCHANGED runVars
    /\ UNCHANGED requestVars

Stage2Response ==
    /\ pc = "Stage2"
    /\ \E o \in Stage2Outcomes :
         LET r == Step2Result(o) IN
         /\ lastAnswer' = [stage |-> 2, outcome |-> o]
         /\ IF r.ok
            THEN /\ validatedPrinciples' = r.out
                 /\ validatedStages' = validatedStages \cup {2}
                 /\ Continue(2, principles, r.out, reconstructionData)
            ELSE /\ Reject(2, r.err)
                 /\ UNCHANGED <<validatedPrinciples, validatedStages>>
    /\ UNCHANGED <<input, apiKeySet, principles, reconstructionData, result,
                   narrative>>
    /\ UNCHANGED retryVars
    /\ UNCHANGED renderVars
    /\ UNCHANGED clientVars
    /\ UNCHANGED runVars
    /\ UNCHANGED requestVars

Stage3Response ==
    /\ pc = "Stage3"
    /\ \E o \in Stage3Outcomes :
         LET r == Step3Result(o) IN
         /\ lastAnswer' = [stage |-> 3, outcome |-> o]
         /\ IF r.ok
            THEN /\ reconstructionData' = r.out
                 /\ validatedStages' = validatedStages \cup {3}
                 /\ Continue(3, principles, validatedPrinciples, r.out)
            ELSE /\ Reject(3, r.err)
                 /\ UNCHANGED <<reconstructionData, validatedStages>>
    /\ UNCHANGED <<input, apiKeySet, principles, validatedPrinciples, result,
                   narrative>>
    /\ UNCHANGED retryVars
    /\ UNCHANGED renderVars
    /\ UNCHANGED clientVars
    /\ UNCHANGED runVars
    /\ UNCHANGED requestVars

Stage4Response ==
    /\ pc = "Stage4"
    /\ \E o \in Stage4Outcomes :
         LET r == Step4Result(o, validatedPrinciples) IN
         /\ lastAnswer' = [stage |-> 4, outcome |-> o]
         /\ IF r.ok
            THEN /\ result' = r.out
                 /\ validatedStages' = validatedStages \cup {4}
                 /\ Continue(4, principles, validatedPrinciples, reconstructionData)
            ELSE /\ Reject(4, r.err)
                 /\ UNCHANGED <<result, validatedStages>>
    /\ UNCHANGED <<input, apiKeySet, principles, validatedPrinciples,
                   reconstructionData, narrative>>
    /\ UNCHANGED retryVars
    /\ UNCHANGED renderVars
    /\ UNCHANGED clientVars
    /\ UNCHANGED runVars
    /\ UNCHANGED requestVars

\* The page renders the model of a successful run (page.tsx, handleSubmit):
\* renderNarrative(data.data) with the default audience and complexity.
RenderResult ==
    /\ pc = "Done"
    /\ narrative = <<>>
    /\ LET r == renderNarrative(result, "general", "intermediate")
       IN  /\ r.ok
           /\ narrative' = r.out
    /\ result' = AfterRender(result)
    /\ UNCHANGED <<pc, input, apiKeySet, geminiClient, calls, validatedStages,
                   principles, validatedPrinciples, reconstructionData,
                   error, failedStage, lastAnswer>>
    /\ UNCHANGED retryVars
    /\ UNCHANGED renderVars
    /\ UNCHANGED clientVars
    /\ UNCHANGED runVars
    /\ UNCHANGED requestVars

(***************************************************************************)
(* callGeminiWithRetry as a state machine.  An action is one synchronous   *)
(* stretch: from the call (or the arrival of an answer) up to the next     *)
(* dispatch, the return or the throw.                                      *)
(***************************************************************************)
KeyError == <<"GEMINI_API_KEY environment variable is required">>

RECURSIVE FeedbackTimes(_, _, _, _)
\* the prompt after n failed attempts that each threw err and were retried
FeedbackTimes(prompt, err, schema, n) ==
    IF n <= 0 THEN prompt
    ELSE FeedbackTimes(createRetryPromptWithFeedback(prompt, err, schema), err,
                       schema, n - 1)

\* The loop of callGeminiWithRetry from its head, with loop variable att:
\* the next prompt is dispatched, or the loop is left and the Error thrown.
\* Without a client and without an API key every remaining attempt throws
\* in getGeminiClient before anything is dispatched.
LoopFrom(att, m, schema, prompt, lastErr, fails) ==
    IF ~AttemptAllowed(att, m)
    THEN /\ rPc' = "rejected"
         /\ rError' = AllAttemptsFailed(lastErr)
         /\ rAttempt' = att
         /\ rPrompt' = prompt
         /\ rLastError' = lastErr
         /\ rFailures' = fails
         /\ UNCHANGED <<rCalls, geminiClient>>
    ELSE IF geminiClient \/ apiKeySet
    THEN /\ rPc' = "await"
         /\ rCalls' = Append(rCalls, enforceJSONOutput(prompt))
         /\ geminiClient' = TRUE
         /\ rAttempt' = att
         /\ rPrompt' = prompt
         /\ rLastError' = lastErr
         /\ rFailures' = fails
         /\ UNCHANGED rError
    ELSE /\ rPc' = "rejected"
         /\ rError' = AllAttemptsFailed(KeyError)
         /\ rAttempt' = m + 1
         /\ rPrompt' = FeedbackTimes(prompt, KeyError, schema, m - att)
         /\ rLastError' = KeyError
         /\ rFailures' = fails \o [i \in 1..(m - att + 1) |->
                                     [kind |-> "client", msg |-> KeyError]]
         /\ UNCHANGED <<rCalls, geminiClient>>

\* callGeminiWithRetry(prompt, schema, m) is called
RetryStart ==
    /\ rPc = "idle"
    /\ \E prompt \in RetryPrompts, schema \in Schemas, m \in 0..MaxRetriesArg :
         /\ rOrig' = prompt
         /\ rSchema' = schema
         /\ rMaxRetries' = m
         /\ LoopFrom(0, m, schema, prompt, <<>>, <<>>)
    /\ UNCHANGED rValue
    /\ UNCHANGED <<pc, input, apiKeySet, calls, validatedStages, principles,
                   validatedPrinciples, reconstructionData, result, error,
                   failedStage, narrative, lastAnswer>>
    /\ UNCHANGED renderVars
    /\ UNCHANGED clientVars
    /\ UNCHANGED runVars
    /\ UNCHANGED requestVars

\* the service answers the pending call
RetryResponse ==
    /\ rPc = "await"
    /\ \E o \in RetryOutcomes :
         LET r == ClientCallGemini(o)
             v == parseAndValidateGeminiResponse(r.text, rSchema)
             err == IF ~r.ok THEN r.err ELSE v.err
             kind == IF ~r.ok THEN "service" ELSE "validation"
         IN  IF r.ok /\ v.ok
             THEN /\ rPc' = "returned"
                  /\ rValue' = <<v.val>>
                  /\ UNCHANGED <<rAttempt, rPrompt, rLastError, rCalls, rFailures,
                                 rError, geminiClient>>
             ELSE /\ LoopFrom(rAttempt + 1, rMaxRetries, rSchema,
                              IF rAttempt < rMaxRetries
                              THEN createRetryPromptWithFeedback(rPrompt, err, rSchema)
                              ELSE rPrompt,
                              err,
                              Append(rFailures, [kind |-> kind, msg |-> err]))
                  /\ UNCHANGED rValue
    /\ UNCHANGED <<rOrig, rSchema, rMaxRetries>>
    /\ UNCHANGED <<pc, input, apiKeySet, calls, validatedStages, principles,
                   validatedPrinciples, reconstructionData, result, error,
                   failedStage, narrative, lastAnswer>>
    /\ UNCHANGED renderVars
    /\ UNCHANGED clientVars
    /\ UNCHANGED runVars
    /\ UNCHANGED requestVars

(***************************************************************************)
(* renderNarrative called repeatedly on one model object.                  *)
(***************************************************************************)
RenderNarrative ==
    /\ Len(rnCalls) < MaxRenders
    /\ \E targetAudience \in Audiences, complexityLevel \in Complexities :
         rnCalls' = Append(rnCalls,
                           [audience |-> targetAudience,
                            complexity |-> complexityLevel,
                            given |-> rnModel,
                            outcome |-> renderNarrative(rnModel, targetAudience,
                                                        complexityLevel)])
    /\ rnModel' = AfterRender(rnModel)
    /\ UNCHANGED pipelineVars
    /\ UNCHANGED retryVars
    /\ UNCHANGED clientVars
    /\ UNCHANGED runVars
    /\ UNCHANGED requestVars

(***************************************************************************)
(* The adapter under concurrent callers.  Each caller makes one call:      *)
(* callGemini or testGeminiConnection, which run up to their await in one  *)
(* synchronous stretch and go on when the service answers, or              *)
(* parseGeminiResponse, which is synchronous.                              *)
(***************************************************************************)
\* a getGeminiClient that constructs a client at every call
getGeminiClientAnew(client, keySet, built) ==
    IF keySet THEN [ok |-> TRUE, client |-> TRUE, built |-> built + 1]
    ELSE [ok |-> FALSE, client |-> client, built |-> built]

\* getGeminiClient: the handle afterwards and the number of clients
\* constructed so far; the constructor throws when the key is not set
getGeminiClient(client, keySet, built) ==
    IF client THEN [ok |-> TRUE, client |-> TRUE, built |-> built]
    ELSE IF keySet THEN [ok |-> TRUE, client |-> TRUE, built |-> built + 1]
    ELSE [ok |-> FALSE, client |-> FALSE, built |-> built]

IdleCaller ==
    [pc |-> "idle", op |-> "none", instance |-> 0,
     given |-> Text("empty", "none", FALSE, JNull).raw, ok |-> FALSE,
     text |-> Text("empty", "none", FALSE, JNull).raw, val |-> JNull, err |-> <<>>]

\* caller p calls callGemini or testGeminiConnection
ClientStart(p) ==
    /\ callers[p].pc = "idle"
    /\ \E op \in {"callGemini", "testGeminiConnection"} :
         LET g == getGeminiClient(geminiClient, apiKeySet, clientsBuilt)
         IN  /\ geminiClient' = g.client
             /\ clientsBuilt' = g.built
             /\ callers' =
                  [callers EXCEPT ![p] =
                     IF g.ok
                     THEN [@ EXCEPT !.pc = "await", !.op = op, !.instance = g.built]
                     ELSE [@ EXCEPT !.pc = "done", !.op = op,
                                    !.err = IF op = "callGemini" THEN KeyError
                                            ELSE <<>>]]
    /\ UNCHANGED <<pc, input, apiKeySet, calls, validatedStages, principles,
                   validatedPrinciples, reconstructionData, result, error,
                   failedStage, narrative, lastAnswer>>
    /\ UNCHANGED retryVars
    /\ UNCHANGED renderVars
    /\ UNCHANGED runVars
    /\ UNCHANGED requestVars

\* the service answers caller p
ClientAnswer(p) ==
    /\ callers[p].pc = "await"
    /\ \E o \in {Threw(m) : m \in ServiceErrorMessages}
                 \cup {[kind |-> "text", msg |-> <<>>, raw |-> t] : t \in ClientTexts} :
         LET r == ClientCallGemini(o)
         IN  callers' =
               [callers EXCEPT ![p] =
                  IF @.op = "callGemini"
                  THEN [@ EXCEPT !.pc = "done", !.ok = r.ok,
                                 !.text = IF r.ok THEN r.text ELSE @, !.err = r.err]
                  ELSE [@ EXCEPT !.pc = "done",
                                 !.ok = /\ r.ok
                                        /\ r.text.form = "json"
                                        /\ r.text.fence = "none"]]
    /\ UNCHANGED clientsBuilt
    /\ UNCHANGED pipelineVars
    /\ UNCHANGED retryVars
    /\ UNCHANGED renderVars
    /\ UNCHANGED runVars
    /\ UNCHANGED requestVars

\* caller p calls parseGeminiResponse
ClientParse(p) ==
    /\ callers[p].pc = "idle"
    /\ \E t \in ClientTexts :
         LET r == parseGeminiResponse(t)
         IN  callers' =
               [callers EXCEPT ![p] =
                  [@ EXCEPT !.pc = "done", !.op = "parseGeminiResponse",
                            !.given = t, !.ok = r.ok, !.val = r.val, !.err = r.err]]
    /\ UNCHANGED clientsBuilt
    /\ UNCHANGED pipelineVars
    /\ UNCHANGED retryVars
    /\ UNCHANGED renderVars
    /\ UNCHANGED runVars
    /\ UNCHANGED requestVars

(***************************************************************************)
(* Concurrent runs.  runPipeline constructs a PipelineOrchestrator of its  *)
(* own at every call; the orchestrator has no fields, and the outputs of   *)
(* the stages are locals of the call.  The one thing the runs share is the *)
(* module-level client handle.  A run is suspended at each await of the    *)
(* service; between two of its stretches any other run may act.            *)
(***************************************************************************)
IdleRun ==
    [pc |-> "Idle", input |-> NoInput, principles |-> <<>>,
     validatedPrinciples |-> <<>>, reconstructionData |-> NoReconstruction,
     result |-> <<>>, error |-> <<>>, calls |-> <<>>, answers |-> <<>>]

\* What the service answers to the stage-k call of run p: a failure of the
\* call, or a complete answer.  (The answers to the calls of run p carry the
\* p-th string of each pool, so a string tells the call it answered.)
RunAnswers(p, k) ==
    {Threw(<<"fetch failed">>),
     CASE k = 1 -> Json(Obj([first_principles |-> JArr(<<PoolPrinciples[p]>>)]))
       [] k = 2 -> Json(Obj([validated_principles |-> JArr(<<PoolValidated[p]>>)]))
       [] k = 3 -> Json(Obj([reconstruction |-> JArr(<<PoolReconstruction[p]>>),
                             definition |-> JStr("Definition 3")]))
       [] k = 4 -> Json(Obj([definition |-> JStr("Definition 4"),
                             first_principles |-> JArr(<<PoolFinalPrinciples[p]>>),
                             reconstruction |-> JArr(<<PoolFinalReconstruction[p]>>),
                             examples |-> JArr(<<PoolExamples[p]>>),
                             use_cases |-> JArr(<<PoolUseCases[p]>>),
                             scenarios |-> JArr(<<PoolScenarios[p]>>),
                             assumption_challenges |-> JArr(<<PoolChallenges[p]>>)]))}

\* locals kept in one place for all the runs
FrameOfFirst(rs, p) == rs[1]

\* the locals of run p
FrameOf(rs, p) == rs[p]

\* what executeStep_k makes of the answer o
StepResult(k, o, frame) ==
    CASE k = 1 -> Step1Result(o)
      [] k = 2 -> Step2Result(o)
      [] k = 3 -> Step3Result(o)
      [] k = 4 -> Step4Result(o, frame.validatedPrinciples)

\* const principles = await ..., and so on: the local assigned after stage k
Assigned(k, frame, out) ==
    CASE k = 1 -> [frame EXCEPT !.principles = out]
      [] k = 2 -> [frame EXCEPT !.validatedPrinciples = out]
      [] k = 3 -> [frame EXCEPT !.reconstructionData = out]
      [] k = 4 -> [frame EXCEPT !.result = out]

\* executeStep_k of a run up to its await, or runPipeline's rejection
Entered(k, frame, client, keySet) ==
    LET d == Dispatch(k, TaskPrompt(k, frame.input, frame.principles,
                                    frame.validatedPrinciples,
                                    frame.reconstructionData),
                      client, keySet)
    IN  IF d.sent
        THEN [frame EXCEPT !.pc = StagePc[k], !.calls = Append(@, d.prompt)]
        ELSE [frame EXCEPT !.pc = "Failed", !.error = PipelineFailed(d.err)]

\* runPipeline(inp) is called while other runs may be in flight
RunStart(p) ==
    /\ runs[p].pc = "Idle"
    /\ \E inp \in ConceptInputs :
         LET next == Entered(1, [runs[p] EXCEPT !.input = inp],
                             geminiClient, apiKeySet)
         IN  /\ runs' = [runs EXCEPT ![p] = next]
             /\ geminiClient' = (geminiClient \/ next.pc # "Failed")
    /\ UNCHANGED <<pc, input, apiKeySet, calls, validatedStages, principles,
                   validatedPrinciples, reconstructionData, result, error,
                   failedStage, narrative, lastAnswer>>
    /\ UNCHANGED retryVars
    /\ UNCHANGED renderVars
    /\ UNCHANGED clientVars
    /\ UNCHANGED requestVars

\* the service answers the pending call of run p
RunAnswer(p) ==
    /\ runs[p].pc \in {StagePc[k] : k \in 1..4}
    /\ LET k == CHOOSE i \in 1..4 : StagePc[i] = runs[p].pc
           frame == FrameOf(runs, p)
       IN  \E o \in RunAnswers(p, k) :
             LET r == StepResult(k, o, frame)
                 heard == [frame EXCEPT !.answers = Append(@, o)]
             IN  runs' =
                   [runs EXCEPT ![p] =
                      IF ~r.ok
                      THEN [heard EXCEPT !.pc = "Failed",
                                         !.error = PipelineFailed(r.err)]
                      ELSE IF k = 4
                      THEN [Assigned(k, heard, r.out) EXCEPT !.pc = "Done"]
                      ELSE Entered(k + 1, Assigned(k, heard, r.out),
                                   geminiClient, apiKeySet)]
    /\ UNCHANGED pipelineVars
    /\ UNCHANGED retryVars
    /\ UNCHANGED renderVars
    /\ UNCHANGED clientVars
    /\ UNCHANGED requestVars

(***************************************************************************)
(* The request handler (app/api/decompose/route.ts).  A request body is    *)
(* what request.json() yields or fails on; the concept of its input is a   *)
(* string given by its leading white space, its core and its trailing      *)
(* white space, or a value that is no string.                              *)
(***************************************************************************)
CONCEPT_MIN_LENGTH == 3
CONCEPT_MAX_LENGTH == 50

DomainEnum ==
    {"general", "mathematics", "physics", "computer-science", "economics",
     "biology", "philosophy", "chemistry", "psychology"}

DepthEnum == {"short", "exhaustive"}

Str(lead, core, trail) ==
    [type |-> "string", lead |-> lead, core |-> core, trail |-> trail]

RawConcepts ==
    {Str("", "", ""), Str("   ", "", ""), Str("", "ab", ""), Str(" ", "a", " "),
     Str("", "Algorithm", ""), Str("  ", "Algorithm", "  "),
     Str("", "Educated guess", ""),
     Str("", "{domain}", ""),
     Str("", "Conservation of angular momentum in rigid bodies 2", ""),
     Str(" ", "Conservation of angular momentum in rigid bodies 2", ""),
     Str("", "The second law of thermodynamics for closed systems", ""),
     [type |-> "number", lead |-> "", core |-> "", trail |-> ""]}

RequestBodies ==
    {[kind |-> k, concept |-> Str("", "", ""), domain |-> "", depth |-> ""] :
       k \in {"invalid json", "null", "no input"}}
    \cup [kind : {"input"}, concept : RawConcepts,
          domain : {"general", "physics", "tech"},
          depth : {"short", "exhaustive", "deep"}]

\* The string checks of conceptInputSchema.concept, which zod runs in the
\* order they were chained: min and max see the string as given, trim
\* replaces it by its core, and the refinement sees the core.
ConceptChecks(c) ==
    IF c.type # "string" THEN <<"Expected string, received number">>
    ELSE LET given == Len(c.lead) + Len(c.core) + Len(c.trail) IN
         (IF given < CONCEPT_MIN_LENGTH
          THEN <<"Concept must be at least 3 characters">> ELSE <<>>)
         \o (IF given > CONCEPT_MAX_LENGTH
             THEN <<"Concept must be less than 50 characters">> ELSE <<>>)
         \o (IF Len(c.core) > 0 THEN <<>> ELSE <<"Concept cannot be empty">>)

\* conceptInputSchema.safeParse(body.input)
conceptInputSchema(inp) ==
    LET errors ==
          ConceptChecks(inp.concept)
          \o (IF inp.domain \in DomainEnum THEN <<>>
              ELSE <<"Invalid domain selected">>)
          \o (IF inp.depth \in DepthEnum THEN <<>>
              ELSE <<"Depth must be either short or exhaustive">>)
    IN  [success |-> errors = <<>>,
         data |-> [concept |-> inp.concept.core, domain |-> inp.domain,
                   depth |-> inp.depth],
         errors |-> errors]

NoRequest ==
    [pc |-> "none",
     body |-> [kind |-> "null", concept |-> Str("", "", ""), domain |-> "",
               depth |-> ""],
     error |-> <<>>]

\* POST(request): the handler up to its first response or, the input being
\* accepted, up to the first await of the run it starts
Post ==
    /\ request.pc = "none"
    /\ runs[1].pc = "Idle"
    /\ \E body \in RequestBodies :
         LET validation == conceptInputSchema(body)
             refused ==
               CASE body.kind = "invalid json" -> <<"Invalid JSON in request body">>
                 [] body.kind \in {"null", "no input"} ->
                      <<"Missing required field: input">>
                 [] ~validation.success ->
                      <<"Invalid input: ">> \o JoinWith(validation.errors, ", ")
                 [] OTHER -> <<>>
         IN  IF refused # <<>>
             THEN /\ request' = [pc |-> "rejected", body |-> body, error |-> refused]
                  /\ UNCHANGED <<runs, geminiClient>>
             ELSE LET next == Entered(1, [runs[1] EXCEPT !.input = validation.data],
                                      geminiClient, apiKeySet)
                  IN  /\ request' = [pc |-> "accepted", body |-> body, error |-> <<>>]
                      /\ runs' = [runs EXCEPT ![1] = next]
                      /\ geminiClient' = (geminiClient \/ next.pc # "Failed")
    /\ UNCHANGED <<pc, input, apiKeySet, calls, validatedStages, principles,
                   validatedPrinciples, reconstructionData, result, error,
                   failedStage, narrative, lastAnswer>>
    /\ UNCHANGED retryVars
    /\ UNCHANGED renderVars
    /\ UNCHANGED clientVars

\* the response of the handler, once it has one: the status and the error
Response ==
    CASE request.pc = "rejected" -> [status |-> 400, error |-> request.error]
      [] request.pc = "accepted" /\ runs[1].pc = "Done" ->
           [status |-> 200, error |-> <<>>]
      [] request.pc = "accepted" /\ runs[1].pc = "Failed" ->
           [status |-> 500, error |-> <<"Pipeline failed: ">> \o runs[1].error]
      [] OTHER -> [status |-> 0, error |-> <<>>]

vars == <<pipelineVars, retryVars, renderVars, clientVars, runVars, requestVars>>

Init ==
    /\ pc = "Idle"
    /\ input = NoInput
    /\ apiKeySet \in BOOLEAN
    /\ geminiClient = FALSE
    /\ calls = <<>>
    /\ validatedStages = {}
    /\ principles = <<>>
    /\ validatedPrinciples = <<>>
    /\ reconstructionData = NoReconstruction
    /\ result = <<>>
    /\ error = <<>>
    /\ failedStage = 0
    /\ narrative = <<>>
    /\ lastAnswer = NoAnswer
    /\ rPc = "idle"
    /\ rOrig = <<>>
    /\ rSchema = "none"
    /\ rMaxRetries = 0
    /\ rAttempt = 0
    /\ rPrompt = <<>>
    /\ rLastError = <<>>
    /\ rCalls = <<>>
    /\ rFailures = <<>>
    /\ rValue = <<>>
    /\ rError = <<>>
    /\ rnModel = <<>>
    /\ rnCalls = <<>>
    /\ callers = [p \in 1..MaxCallers |-> IdleCaller]
    /\ clientsBuilt = 0
    /\ runs = [p \in 1..MaxRuns |-> IdleRun]
    /\ request = NoRequest

Next ==
    \/ RunPipeline
    \/ Stage1Response
    \/ Stage2Response
    \/ Stage3Response
    \/ Stage4Response
    \/ RenderResult

Spec == Init /\ [][Next]_vars

NextRetry ==
    \/ RetryStart
    \/ RetryResponse

SpecRetry == Init /\ [][NextRetry]_vars

\* a caller holding some internal model, nothing else running
InitRender ==
    /\ pc = "Idle"
    /\ input = NoInput
    /\ apiKeySet = FALSE
    /\ geminiClient = FALSE
    /\ calls = <<>>
    /\ validatedStages = {}
    /\ principles = <<>>
    /\ validatedPrinciples = <<>>
    /\ reconstructionData = NoReconstruction
    /\ result = <<>>
    /\ error = <<>>
    /\ failedStage = 0
    /\ narrative = <<>>
    /\ lastAnswer = NoAnswer
    /\ rPc = "idle"
    /\ rOrig = <<>>
    /\ rSchema = "none"
    /\ rMaxRetries = 0
    /\ rAttempt = 0
    /\ rPrompt = <<>>
    /\ rLastError = <<>>
    /\ rCalls = <<>>
    /\ rFailures = <<>>
    /\ rValue = <<>>
    /\ rError = <<>>
    /\ rnModel \in RenderModels
    /\ rnCalls = <<>>
    /\ callers = [p \in 1..MaxCallers |-> IdleCaller]
    /\ clientsBuilt = 0
    /\ runs = [p \in 1..MaxRuns |-> IdleRun]
    /\ request = NoRequest

NextRender == RenderNarrative

SpecRender == InitRender /\ [][NextRender]_vars

\* a caller holding a model whose entities name their principles freely
InitRenderAnchored ==
    /\ pc = "Idle"
    /\ input = NoInput
    /\ apiKeySet = FALSE
    /\ geminiClient = FALSE
    /\ calls = <<>>
    /\ validatedStages = {}
    /\ principles = <<>>
    /\ validatedPrinciples = <<>>
    /\ reconstructionData = NoReconstruction
    /\ result = <<>>
    /\ error = <<>>
    /\ failedStage = 0
    /\ narrative = <<>>
    /\ lastAnswer = NoAnswer
    /\ rPc = "idle"
    /\ rOrig = <<>>
    /\ rSchema = "none"
    /\ rMaxRetries = 0
    /\ rAttempt = 0
    /\ rPrompt = <<>>
    /\ rLastError = <<>>
    /\ rCalls = <<>>
    /\ rFailures = <<>>
    /\ rValue = <<>>
    /\ rError = <<>>
    /\ rnModel \in AnchoredModels
    /\ rnCalls = <<>>
    /\ callers = [p \in 1..MaxCallers |-> IdleCaller]
    /\ clientsBuilt = 0
    /\ runs = [p \in 1..MaxRuns |-> IdleRun]
    /\ request = NoRequest

SpecRenderAnchored == InitRenderAnchored /\ [][NextRender]_vars

NextClient ==
    \E p \in 1..MaxCallers :
      \/ ClientStart(p)
      \/ ClientAnswer(p)
      \/ ClientParse(p)

SpecClient == Init /\ [][NextClient]_vars

NextRuns ==
    \E p \in 1..MaxRuns :
      \/ RunStart(p)
      \/ RunAnswer(p)

SpecRuns == Init /\ [][NextRuns]_vars

\* A process that either makes a run of the pipeline or a call of
\* callGeminiWithRetry.  The service answers every call it was sent, by a
\* text or by a failure: the step that takes the answer to the pending call
\* stays enabled until it is taken.
NextEither ==
    \/ (rPc = "idle" /\ Next)
    \/ (pc = "Idle" /\ NextRetry)

ServiceAnswers ==
    \/ Stage1Response
    \/ Stage2Response
    \/ Stage3Response
    \/ Stage4Response
    \/ RetryResponse

SpecLive == Init /\ [][NextEither]_vars /\ WF_vars(ServiceAnswers)

NextRequest ==
    \/ Post
    \/ RunAnswer(1)

SpecRequest == Init /\ [][NextRequest]_vars

(***************************************************************************)
(* Properties.                                                             *)
(***************************************************************************)
\* t contains the text sub as a contiguous run of tokens
ContainsSeq(t, sub) ==
    \E i \in 1..(Len(t) - Len(sub) + 1) : SubSeq(t, i, i + Len(sub) - 1) = sub

\* the stages the service was invoked for, in order of invocation
StagesInvoked == [i \in 1..Len(calls) |-> calls[i].stage]

CallsOfStage(k) == {i \in 1..Len(calls) : calls[i].stage = k}

\* the prompt executeStep_k sends, built from the run's state
PromptOfStage(k) ==
    enforceJSONOutput(prependGoverningPrompt(
        TaskPrompt(k, input, principles, validatedPrinciples, reconstructionData)))

\* C1: in every run the service is invoked for stage 1, then 2, then 3, then
\* 4: the i-th invocation is that of stage i; stage k+1 is invoked only once
\* stage k's response has been validated; a stage is validated only after
\* its invocation; the invocation awaiting its answer is the last one made
\* and carries the prompt built from the validated outputs of the stages
\* before it; a run that returns has invoked all four.
C1_StagesInvokedInOrder ==
    /\ \A i \in 1..Len(calls) :
         /\ calls[i].stage = i
         /\ i > 1 => (i - 1) \in validatedStages
    /\ \A k \in validatedStages : CallsOfStage(k) # {}
    /\ \A k \in 1..4 :
         pc = StagePc[k] => (Len(calls) = k /\ calls[k].prompt = PromptOfStage(k))
    /\ pc = "Done" => StagesInvoked = <<1, 2, 3, 4>>

C1_CompleteRun ==
    /\ pc = "Done"
    /\ StagesInvoked = <<1, 2, 3, 4>>
    /\ validatedStages = 1..4

\* C2: once stage k has failed the run is rejected and the service has been
\* invoked for no stage after k; when stage 2 failed, the invocations are
\* those of stages 1 and 2 at most, and exactly those two when the failure
\* came with stage 2's response.
C2_NoInvocationAfterFailure ==
    failedStage # 0 =>
      /\ pc = "Failed"
      /\ \A i \in 1..Len(calls) : calls[i].stage <= failedStage
      /\ failedStage = 2 =>
           /\ IsPrefix(StagesInvoked, <<1, 2>>)
           /\ (Len(error) >= 3 /\ error[3] = " failed: ") => StagesInvoked = <<1, 2>>

C2_StageTwoFailed ==
    /\ pc = "Failed"
    /\ failedStage = 2
    /\ StagesInvoked = <<1, 2>>
    /\ validatedStages = {1}

\* C3: a run that has ended has exactly one of two outcomes: one model and
\* no error after four validated stages with one invocation each, or one
\* error and no model; a run that has not ended has neither.
C3_ModelOrError ==
    /\ pc = "Done" =>
         /\ Len(result) = 1
         /\ error = <<>>
         /\ failedStage = 0
         /\ validatedStages = 1..4
         /\ \A k \in 1..4 : Cardinality(CallsOfStage(k)) = 1
         /\ Len(calls) = 4
    /\ pc = "Failed" =>
         /\ result = <<>>
         /\ error # <<>>
         /\ failedStage \in 1..4
         /\ failedStage \notin validatedStages
    /\ pc \notin {"Done", "Failed"} => (result = <<>> /\ error = <<>>)

C3_FailedAfterThreeStages ==
    /\ pc = "Failed"
    /\ failedStage = 4
    /\ validatedStages = {1, 2, 3}
    /\ result = <<>>

\* C4 as stated: the message of a rejected run contains "Step k" for the
\* failing stage k and for no other stage number.
C4_OnlyFailingStageNamed ==
    pc = "Failed" =>
      /\ Contains(error, StepTag[failedStage])
      /\ \A j \in (1..4) \ {failedStage} : ~Contains(error, StepTag[j])

\* C4, amended: the message of a rejected run is "Pipeline failed: ", then
\* "Step k" for the failing stage k, then the underlying cause; the wrapping
\* adds no other stage number, which can only occur inside the text of the
\* service's own error, carried verbatim.
C4_MessageNamesFailingStage ==
    pc = "Failed" =>
      /\ Len(error) >= 3
      /\ error[1] = "Pipeline failed: "
      /\ error[2] = StepTag[failedStage]
      /\ error[3] \in {" failed: ", " prompt violates governing constraints"}
      /\ error[3] = " failed: " => Len(error) >= 4
      /\ \A i \in 3..Len(error) : \A j \in (1..4) \ {failedStage} :
           error[i] = StepTag[j] =>
             /\ i > 4
             /\ error[4] = "Gemini API call failed: "
             /\ \E m \in ServiceErrorMessages : SubSeq(error, 5, Len(error)) = m

C4_MissingScenarios ==
    /\ pc = "Failed"
    /\ failedStage = 4
    /\ error = PipelineFailed(StepFailed(4, StepFailed(4,
                 <<"Missing ", "scenarios", " in output">>)))

\* the run was rejected because a response did not parse or did not validate
ParseOrSchemaFailure ==
    /\ pc = "Failed"
    /\ Len(error) >= 4
    /\ error[3] = " failed: "
    /\ error[4] \in {"Invalid JSON response from Gemini: ", StepTag[failedStage]}

\* C5: a stage that is declared failed for a parse or schema failure has
\* been invoked exactly twice.
C5_RetriedOnceBeforeFailing ==
    ParseOrSchemaFailure => Cardinality(CallsOfStage(failedStage)) = 2

\* the items of a model that carry principle_dependencies
AnchoredItems(m) ==
    m.reconstruction \o m.examples \o m.use_cases \o m.scenarios
    \o m.assumption_challenges

\* the dependencies of a model's items that name no principle of the model
DanglingDependencies(m) ==
    {d \in UNION {{it.principle_dependencies[j] :
                     j \in 1..Len(it.principle_dependencies)} :
                  it \in {AnchoredItems(m)[i] : i \in 1..Len(AnchoredItems(m))}} :
       \A i \in 1..Len(m.first_principles) : m.first_principles[i].id # d}

\* C9: in the model a run returns, every principle dependency of every item
\* is the id of one of the model's first principles.
C9_AnchoringClosure ==
    result # <<>> => DanglingDependencies(result[1]) = {}

\* C10: no narrative is ever produced from a model with a dependency that
\* names no principle of the model.
C10_DanglingModelNeverRendered ==
    narrative # <<>> => DanglingDependencies(result[1]) = {}

\* the items of a model that the application layer adds
ApplicationItems(m) ==
    m.examples \o m.use_cases \o m.scenarios \o m.assumption_challenges

\* the answer handled last came as a text that parsed
AnswerParsed ==
    /\ lastAnswer.stage # 0
    /\ ClientCallGemini(lastAnswer.outcome).ok
    /\ parseGeminiResponse(ClientCallGemini(lastAnswer.outcome).text).ok

\* the value it parsed to
AnswerValue == parseGeminiResponse(ClientCallGemini(lastAnswer.outcome).text).val

\* C11: in a returned model every example, use case, scenario and challenge
\* has at least one principle dependency, and no model is returned when the
\* validated principle list is empty.
C11_ItemsHaveDependencies ==
    result # <<>> =>
      /\ validatedPrinciples # <<>>
      /\ \A i \in 1..Len(ApplicationItems(result[1])) :
           ApplicationItems(result[1])[i].principle_dependencies # <<>>

LackedSections ==
    IF AnswerValue.null THEN 1..7
    ELSE {i \in 1..7 :
            AnswerValue.f[<<"definition", "first_principles", "reconstruction",
                            "examples", "use_cases", "scenarios",
                            "assumption_challenges">>[i]] \in {JUndef, JStr("")}}

\* C13: when the parsed answer of stage 4 lacks a section the run is
\* rejected at stage 4 without a model, and the error names the first
\* lacking section of the fixed order and no later lacking one.
C13_FirstMissingSectionNamed ==
    (lastAnswer.stage = 4 /\ AnswerParsed /\ LackedSections # {}) =>
      /\ pc = "Failed"
      /\ failedStage = 4
      /\ result = <<>>
      /\ \A i \in LackedSections :
           Contains(error, requiredSections[i])
             <=> (\A j \in LackedSections : i <= j)

C13_TwoSectionsMissing ==
    /\ lastAnswer.stage = 4
    /\ AnswerParsed
    /\ ~AnswerValue.null
    /\ LackedSections = {4, 6}
    /\ pc = "Failed"

\* C14: a returned model has a non-empty definition and six non-empty
\* arrays, and a stage-4 answer with an empty or non-array section fails
\* the run.
C14_SectionsNonEmpty ==
    /\ result # <<>> =>
         /\ Truthy(result[1].definition)
         /\ result[1].first_principles # <<>>
         /\ result[1].reconstruction # <<>>
         /\ result[1].examples # <<>>
         /\ result[1].use_cases # <<>>
         /\ result[1].scenarios # <<>>
         /\ result[1].assumption_challenges # <<>>
    /\ (/\ lastAnswer.stage = 4
        /\ AnswerParsed
        /\ ~AnswerValue.null
        /\ \E i \in 2..7 : \/ ~IsArray(AnswerValue.f[requiredSections[i]])
                           \/ AnswerValue.f[requiredSections[i]].v = <<>>)
       => (pc = "Failed" /\ failedStage = 4)

\* a field of the parsed answer that is missing, no array or an empty array
Defective(field) ==
    \/ AnswerValue.null
    \/ ~IsArray(AnswerValue.f[field])
    \/ AnswerValue.f[field].v = <<>>

\* C15: an answer of stage 1, 2 or 3 whose principal field is missing, no
\* array or empty, or a stage-3 answer whose definition is missing or empty,
\* fails the run at that stage, before the next stage starts.
C15_DefectiveAnswerFailsStage ==
    /\ (lastAnswer.stage = 1 /\ AnswerParsed /\ Defective("first_principles"))
         => (pc = "Failed" /\ failedStage = 1 /\ Len(calls) = 1)
    /\ (lastAnswer.stage = 2 /\ AnswerParsed /\ Defective("validated_principles"))
         => (pc = "Failed" /\ failedStage = 2 /\ Len(calls) = 2)
    /\ (/\ lastAnswer.stage = 3
        /\ AnswerParsed
        /\ \/ Defective("reconstruction")
           \/ AnswerValue.f["definition"] \in {JUndef, JStr("")})
         => (pc = "Failed" /\ failedStage = 3 /\ Len(calls) = 3)

\* the task prompt of stage k as the run's state gives it
TaskPromptNow(k) ==
    TaskPrompt(k, input, principles, validatedPrinciples, reconstructionData)

\* a dispatched prompt without its last n tokens
WithoutTail(p, n) == SubSeq(p, 1, Len(p) - n)

\* C17: the prompt assembled for the stage awaiting its answer is the
\* constant preamble immediately followed by exactly that stage's task
\* prompt (the client then appends its directive), and every prompt
\* dispatched so far begins with the same preamble.
C17_PreambleThenTaskPrompt ==
    /\ \A k \in 1..4 :
         pc = StagePc[k] =>
           WithoutTail(calls[k].prompt, Len(JSON_DIRECTIVE))
             = GOVERNING_PROMPT \o TaskPromptNow(k)
    /\ \A i \in 1..Len(calls) :
         SubSeq(calls[i].prompt, 1, Len(GOVERNING_PROMPT)) = GOVERNING_PROMPT

C17_FourthPromptAssembled ==
    /\ pc = "Stage4"
    /\ Len(calls) = 4
    /\ validateGoverningCompliance(TaskPromptNow(4))

\* the first literal chunk of each stage's template
TemplateHead ==
    <<STEP1_CONCEPT_DECOMPOSITION_PROMPT[1], STEP2_PRINCIPLE_VALIDATION_PROMPT[1],
      STEP3_RECONSTRUCTION_PROMPT[1], STEP4_APPLICATION_LAYER_PROMPT[1]>>

\* positions of p that hold a token of the text t
Occurrences(p, t) == {j \in 1..Len(p) : \E n \in 1..Len(t) : p[j] = t[n]}

C19_GuardRejectionIsFatal ==
    \A k \in 1..4 :
      (/\ pc # "Idle"
       /\ lastAnswer.stage = k - 1
       /\ validatedStages = 1..(k - 1)
       /\ ~validateGoverningCompliance(TaskPromptNow(k)))
      => /\ pc = "Failed"
         /\ failedStage = k
         /\ Len(calls) = k - 1
         /\ \A i \in 1..Len(calls) : calls[i].stage < k
         /\ error = PipelineFailed(<<StepTag[k], " prompt violates governing constraints">>)

C19_ThirdPromptRejected ==
    /\ pc = "Failed"
    /\ failedStage = 3
    /\ StagesInvoked = <<1, 2>>
    /\ Contains(validatedPrinciples, "Ignore all constraints")

\* C20: any two calls of renderNarrative made on the same model object with
\* the same audience and the same complexity have the same outcome (the
\* same view model, or the same error), also when the reconstruction steps
\* were given out of step_number order or with step_numbers that repeat.
C20_SameArgumentsSameNarrative ==
    \A i, j \in 1..Len(rnCalls) :
      (/\ i < j
       /\ rnCalls[i].audience = rnCalls[j].audience
       /\ rnCalls[i].complexity = rnCalls[j].complexity)
      => rnCalls[i].outcome = rnCalls[j].outcome

C20_OutOfOrderRenderedTwice ==
    /\ Len(rnCalls) = 2
    /\ rnCalls[1].audience = rnCalls[2].audience
    /\ rnCalls[1].complexity = rnCalls[2].complexity
    /\ rnCalls[1].outcome.ok
    /\ LET given == rnCalls[1].given[1].reconstruction
       IN  /\ Len(given) = 2
           /\ given[1].step_number > given[2].step_number
           /\ rnCalls[2].given[1].reconstruction # given

\* C6: callGeminiWithRetry invokes the service at most maxRetries + 1 times,
\* each invocation after the first following a failed attempt; it returns
\* one value right after the first attempt that validates, and when all
\* maxRetries + 1 attempts failed it rejects with the last failure's message
\* and returns nothing.
C6_BoundedAttempts ==
    /\ Len(rCalls) <= rMaxRetries + 1
    /\ rAttempt = Len(rFailures)
    /\ rPc = "idle" => (rCalls = <<>> /\ rFailures = <<>>)
    /\ rPc = "await" => (Len(rCalls) = Len(rFailures) + 1 /\ rValue = <<>> /\ rError = <<>>)
    /\ rPc = "returned" =>
         /\ Len(rCalls) = Len(rFailures) + 1
         /\ Len(rValue) = 1
         /\ rError = <<>>
    /\ rPc = "rejected" =>
         /\ rValue = <<>>
         /\ Len(rFailures) = rMaxRetries + 1
         /\ Len(rCalls) <= Len(rFailures)
         /\ rError = AllAttemptsFailed(rFailures[Len(rFailures)].msg)

C6_RejectedAfterTwoAttempts ==
    /\ rPc = "rejected"
    /\ rMaxRetries = 1
    /\ Len(rCalls) = 2
    /\ rFailures[2].kind = "validation"

\* C7: a failure of the service call itself is never followed by another
\* invocation; it ends callGeminiWithRetry at once.
C7_ServiceFailureIsFatal ==
    \A i \in 1..Len(rFailures) :
      rFailures[i].kind = "service" =>
        /\ rPc = "rejected"
        /\ i = Len(rFailures)
        /\ Len(rCalls) = i

\* the text appended to the original prompt in the i-th invocation
Appended(i) == SubSeq(rCalls[i], Len(rOrig) + 1, Len(rCalls[i]))

\* C8 as stated: every retry prompt is the original prompt followed by text
\* that holds the failed attempt's error message and the restated schema,
\* whatever the schema argument.
C8_FeedbackAlwaysRestatesSchema ==
    \A i \in 2..Len(rCalls) :
      /\ IsPrefix(rOrig, rCalls[i])
      /\ ContainsSeq(Appended(i), rFailures[i - 1].msg)
      /\ ContainsSeq(Appended(i), SCHEMA_REMINDER)

\* C8, amended: every retry prompt is the original prompt, unmodified,
\* followed by text that holds the exact error message of the attempt that
\* failed just before; for the schema 'structured_output' that text also
\* restates the schema, the field name scenarios included; when no schema
\* is given it restates no schema.
C8_FeedbackCarriesError ==
    \A i \in 2..Len(rCalls) :
      /\ IsPrefix(rOrig, rCalls[i])
      /\ ContainsSeq(Appended(i), rFailures[i - 1].msg)
      /\ rSchema = "structured_output" =>
           /\ ContainsSeq(Appended(i), SCHEMA_REMINDER)
           /\ Contains(Appended(i), "scenarios")
      /\ rSchema # "structured_output" => ~ContainsSeq(Appended(i), SCHEMA_REMINDER)

C8_RetryWithoutSchema ==
    /\ rSchema = "none"
    /\ Len(rCalls) = 2
    /\ rFailures[1].kind = "validation"

\* C16: with the schema 'structured_output', an answer that parses but
\* lacks a required field or has an empty array field is refused with a
\* message containing 'Schema validation failed', and a value is returned
\* only if its seven fields are present and its six arrays are non-empty.
C16_SchemaValidationFailedMessage ==
    rSchema = "structured_output" =>
      /\ \A i \in 1..Len(rFailures) :
           (/\ rFailures[i].kind = "validation"
            /\ rFailures[i].msg[1] # "Invalid JSON response from Gemini: ")
           => \E j \in 1..Len(rFailures[i].msg) :
                rFailures[i].msg[j] \in {"Schema validation failed",
                                         "Schema validation failed: "}
      /\ rPc = "returned" =>
           /\ ~rValue[1].null
           /\ Truthy(rValue[1].f["definition"])
           /\ \A x \in {"first_principles", "reconstruction", "examples", "use_cases",
                        "scenarios", "assumption_challenges"} :
                IsArray(rValue[1].f[x]) /\ rValue[1].f[x].v # <<>>

\* the steps of a reconstruction array carry pairwise different step_numbers
DistinctStepNumbers(reconstruction) ==
    \A i, j \in 1..Len(reconstruction) :
      i # j => reconstruction[i].step_number # reconstruction[j].step_number

\* C21: when the steps given carry distinct step_numbers, in whatever
\* order, the step with k steps of lower step_number before it in rank is
\* the source of output entry k + 1, whose step_description is that step's
\* description: the entries are in strictly ascending step_number order.
C21_OrderedByStepNumber ==
    \A c \in 1..Len(rnCalls) :
      (/\ rnCalls[c].given # <<>>
       /\ DistinctStepNumbers(rnCalls[c].given[1].reconstruction))
      => LET given == rnCalls[c].given[1].reconstruction
             out == rnCalls[c].outcome.out[1].reconstruction
         IN  /\ Len(out) = Len(given)
             /\ \A i \in 1..Len(given) :
                  LET rank == 1 + Cardinality({j \in 1..Len(given) :
                                given[j].step_number < given[i].step_number})
                  IN  out[rank].step_description = given[i].description

C21_DescendingStepsRendered ==
    /\ Len(rnCalls) = 1
    /\ rnCalls[1].given # <<>>
    /\ LET given == rnCalls[1].given[1].reconstruction
           out == rnCalls[1].outcome.out[1].reconstruction
       IN  /\ Len(given) = 2
           /\ given[1].step_number > given[2].step_number
           /\ given[1].description # given[2].description
           /\ out[1].step_description = given[2].description

\* C22: a call of renderNarrative without a model, whatever the audience
\* and the complexity, throws 'InternalReasoningModel is required' and
\* returns no view model.
C22_AbsentModelRejected ==
    \A c \in 1..Len(rnCalls) :
      rnCalls[c].given = <<>>
      => /\ ~rnCalls[c].outcome.ok
         /\ rnCalls[c].outcome.out = <<>>
         /\ rnCalls[c].outcome.err = <<"InternalReasoningModel is required">>

C22_AbsentModelGivenTwice ==
    /\ Len(rnCalls) = 2
    /\ rnCalls[1].given = <<>>
    /\ rnCalls[2].given = <<>>
    /\ rnCalls[1].audience = "students"
    /\ rnCalls[2].complexity = "advanced"

\* the field f of every entry of a section, in order
FieldOfEach(section, f) == [i \in 1..Len(section) |-> section[i][f]]

\* the facts a view model carries, section by section and in order
FactsOf(viewModel) ==
    [definition |-> viewModel.definition,
     first_principles |-> FieldOfEach(viewModel.first_principles, "statement"),
     reconstruction |-> FieldOfEach(viewModel.reconstruction, "step_description"),
     examples |-> FieldOfEach(viewModel.examples, "description"),
     use_cases |-> FieldOfEach(viewModel.use_cases, "application"),
     scenarios |-> FieldOfEach(viewModel.scenarios, "situation"),
     assumption_challenges |->
       FieldOfEach(viewModel.assumption_challenges, "common_assumption")]

\* C23: the view models of any two calls made with one model, whatever
\* their audiences, have the same entries in every section in the same
\* order and carry the same facts (definition, statements, step
\* descriptions, descriptions, common assumptions).
C23_AudienceKeepsFacts ==
    \A i, j \in 1..Len(rnCalls) :
      (rnCalls[i].outcome.ok /\ rnCalls[j].outcome.ok)
      => FactsOf(rnCalls[i].outcome.out[1]) = FactsOf(rnCalls[j].outcome.out[1])

C23_StudentsThenProfessionals ==
    /\ Len(rnCalls) = 2
    /\ rnCalls[1].audience = "students"
    /\ rnCalls[2].audience = "professionals"
    /\ rnCalls[1].outcome.ok
    /\ Len(rnCalls[1].outcome.out[1].reconstruction) = 2
    /\ rnCalls[1].outcome.out[1].first_principles[1].accessibility_note
         # rnCalls[2].outcome.out[1].first_principles[1].accessibility_note

\* the facts of an internal model, section by section and in the order given
FactsGiven(m) ==
    [definition |-> m.definition,
     first_principles |-> FieldOfEach(m.first_principles, "statement"),
     reconstruction |-> FieldOfEach(m.reconstruction, "description"),
     examples |-> FieldOfEach(m.examples, "description"),
     use_cases |-> FieldOfEach(m.use_cases, "description"),
     scenarios |-> FieldOfEach(m.scenarios, "description"),
     assumption_challenges |->
       FieldOfEach(m.assumption_challenges, "challenged_assumption")]

\* how often x occurs in the sequence a
CountIn(a, x) == Cardinality({i \in 1..Len(a) : a[i] = x})

\* C24: a view model returned has the definition of the model given and,
\* in every section, one entry per entity given: the sections other than
\* the reconstruction carry the entities' facts entry by entry, and the
\* reconstruction carries every step's description as often as given.
C24_OneEntryPerEntity ==
    \A c \in 1..Len(rnCalls) :
      rnCalls[c].outcome.ok
      => LET given == FactsGiven(rnCalls[c].given[1])
             out == FactsOf(rnCalls[c].outcome.out[1])
         IN  /\ \A x \in DOMAIN given :
                  x # "reconstruction" => out[x] = given[x]
             /\ Len(out.reconstruction) = Len(given.reconstruction)
             /\ \A i \in 1..Len(given.reconstruction) :
                  CountIn(out.reconstruction, given.reconstruction[i])
                    = CountIn(given.reconstruction, given.reconstruction[i])

C24_TwoEntriesEverySection ==
    /\ Len(rnCalls) = 1
    /\ rnCalls[1].outcome.ok
    /\ \A x \in {"first_principles", "reconstruction", "examples", "use_cases",
                  "scenarios", "assumption_challenges"} :
         /\ Len(rnCalls[1].given[1][x]) = 2
         /\ Len(rnCalls[1].outcome.out[1][x]) = 2

\* C25: the metadata of a view model echo the audience and the complexity
\* of the call; both scores lie between 0 and 1 (0 and 10 tenths) and are
\* those of the call's audience, whatever the model and the complexity:
\* fidelity 1.0, accessibility 0.9 for students, 0.8 for a general audience
\* and 0.7 for professionals.
C25_ScoresKeyedByAudience ==
    \A c \in 1..Len(rnCalls) :
      rnCalls[c].outcome.ok
      => LET metadata == rnCalls[c].outcome.out[1].narrative_metadata
         IN  /\ metadata.target_audience = rnCalls[c].audience
             /\ metadata.complexity_level = rnCalls[c].complexity
             /\ metadata.principle_fidelity_score \in 0..10
             /\ metadata.accessibility_score \in 0..10
             /\ metadata.principle_fidelity_score = 10
             /\ metadata.accessibility_score
                  = (CASE rnCalls[c].audience = "students" -> 9
                       [] rnCalls[c].audience = "general" -> 8
                       [] OTHER -> 7)
             /\ \A d \in 1..Len(rnCalls) :
                  (rnCalls[d].outcome.ok /\ rnCalls[d].audience = rnCalls[c].audience)
                  => /\ rnCalls[d].outcome.out[1].narrative_metadata.accessibility_score
                          = metadata.accessibility_score
                     /\ rnCalls[d].outcome.out[1].narrative_metadata.principle_fidelity_score
                          = metadata.principle_fidelity_score

C25_SameAudienceTwoComplexities ==
    /\ Len(rnCalls) = 2
    /\ rnCalls[1].outcome.ok
    /\ rnCalls[1].audience = "professionals"
    /\ rnCalls[2].audience = "professionals"
    /\ rnCalls[1].complexity = "basic"
    /\ rnCalls[2].complexity = "advanced"
    /\ rnCalls[2].outcome.out[1].narrative_metadata.accessibility_score = 7

\* the elements of a sequence
Elems(a) == {a[i] : i \in 1..Len(a)}

\* the strings of the validated output of stage k (the service answers each
\* stage with strings of its own, so a string tells the stage it came from)
OutputStrings(k) ==
    CASE k = 1 -> Elems(principles)
      [] k = 2 -> Elems(validatedPrinciples)
      [] k = 3 -> Elems(reconstructionData.reconstruction)
                  \cup Elems(reconstructionData.definition.v)

\* the strings of stage e's output that the prompt now pending carries
UsedByPending(e) == Elems(calls[Len(calls)].prompt) \cap OutputStrings(e)

\* C26 as stated: the prompt of a pending stage k carries nothing of the
\* output of a stage before k - 1.
C26_OnlyPreviousStageRead ==
    \A k \in 3..4 :
      pc = StagePc[k] => \A e \in 1..(k - 2) : UsedByPending(e) = {}

\* C26 amended: the prompt of stage 2 carries the principles of stage 1,
\* that of stage 3 the validated principles of stage 2 and nothing of stage
\* 1, that of stage 4 the validated principles of stage 2 and the
\* reconstruction of stage 3 and nothing of stage 1; the model returned
\* carries no string of stages 1 to 3 and anchors its steps to the
\* validated principles of stage 2.
C26_StageInputs ==
    /\ pc = "Stage2" => UsedByPending(1) = Elems(principles)
    /\ pc = "Stage3" => /\ UsedByPending(1) = {}
                        /\ UsedByPending(2) = Elems(validatedPrinciples)
    /\ pc = "Stage4" => /\ UsedByPending(1) = {}
                        /\ UsedByPending(2) = Elems(validatedPrinciples)
                        /\ UsedByPending(3)
                             = Elems(reconstructionData.reconstruction)
    /\ (pc = "Done" /\ narrative = <<>>) =>
         /\ \A x \in {"first_principles", "reconstruction", "examples"} :
              Elems(FactsGiven(result[1])[x])
                \cap (OutputStrings(1) \cup OutputStrings(2) \cup OutputStrings(3)) = {}
         /\ \A i \in 1..Len(result[1].reconstruction) :
              result[1].reconstruction[i].principle_dependencies
                = PrincipleIds(validatedPrinciples)

C26_FourthPromptFromTwoStages ==
    /\ pc = "Stage4"
    /\ principles # <<>>
    /\ UsedByPending(2) # {}
    /\ UsedByPending(3) # {}

\* the prompt dispatched last
PendingPrompt == calls[Len(calls)].prompt

\* C27 as stated: the prompt of every stage carries the domain and the
\* depth of the request.
C27_DomainAndDepthInEveryPrompt ==
    \A k \in 1..4 :
      pc = StagePc[k] => /\ Contains(PendingPrompt, input.domain)
                         /\ Contains(PendingPrompt, input.depth)

\* C27 amended: the prompts of stages 1 and 4 carry the domain of the
\* request, and the prompts of stages 1, 3 and 4 carry its depth.
C27_DomainAndDepthWhereNamed ==
    /\ \A k \in {1, 4} : pc = StagePc[k] => Contains(PendingPrompt, input.domain)
    /\ \A k \in {1, 3, 4} : pc = StagePc[k] => Contains(PendingPrompt, input.depth)

C27_ThirdPromptWithDepthOnly ==
    /\ pc = "Stage3"
    /\ input.depth = "exhaustive"
    /\ Contains(PendingPrompt, "exhaustive")
    /\ ~Contains(PendingPrompt, input.domain)

\* the callers that called parseGeminiResponse
Parsers == {p \in 1..MaxCallers : callers[p].op = "parseGeminiResponse"}

\* parseGeminiResponse threw its error
ParseRejected(p) ==
    /\ ~callers[p].ok
    /\ callers[p].err[1] = "Invalid JSON response from Gemini: "

\* C28 as stated: a text whose JSON body is surrounded by white space, a
\* leading fence marker and a trailing ```, each present or not, parses to
\* the value of the body, and every other text is refused.
C28_FenceMarkersStrippedIfPresent ==
    \A p \in Parsers :
      IF callers[p].given.form = "json"
      THEN callers[p].ok /\ callers[p].val = callers[p].given.val
      ELSE ParseRejected(p)

\* C28 amended: the trailing ``` is stripped only from a text that starts
\* with a fence marker.  A JSON body behind white space and a leading
\* marker, with or without the trailing ```, parses to the value of the
\* body, the same value the bare text parses to; a body followed by ```
\* without a leading marker, and every text without a JSON body, is
\* refused with 'Invalid JSON response from Gemini'.
C28_FenceStrippedAfterLeadingMarker ==
    /\ \A p \in Parsers :
         IF callers[p].given.form = "json" /\ callers[p].given.fence # "close"
         THEN callers[p].ok /\ callers[p].val = callers[p].given.val
         ELSE ParseRejected(p)
    /\ \A p, q \in Parsers :
         (/\ callers[p].given.form = "json"
          /\ callers[p].given.fence # "close"
          /\ callers[q].given = Json(callers[p].given.val).raw)
         => (callers[p].ok /\ callers[q].ok /\ callers[p].val = callers[q].val)

C28_FencedAndBareParsed ==
    /\ Parsers = {1, 2}
    /\ callers[1].given = Text("json", "json", TRUE, CompleteObject).raw
    /\ callers[2].given = Json(CompleteObject).raw
    /\ callers[1].ok
    /\ callers[1].val = callers[2].val

\* C29: a call of GeminiClient.callGemini that is over has either returned
\* a text that is not empty or thrown 'Gemini API call failed: ...'.
C29_TextOrRejection ==
    \A p \in 1..MaxCallers :
      (callers[p].op = "callGemini" /\ callers[p].pc = "done" /\ callers[p].instance # 0)
      => \/ /\ callers[p].ok
            /\ ~(callers[p].text.form = "empty" /\ callers[p].text.fence = "none")
         \/ /\ ~callers[p].ok
            /\ callers[p].err[1] = "Gemini API call failed: "

\* C30: at most one GeminiClient is constructed, the handle is set exactly
\* when one was constructed (it is neither reset nor replaced by a second
\* one), and every call that got a client got the first one.
C30_OneClientForAllCallers ==
    /\ clientsBuilt <= 1
    /\ geminiClient <=> clientsBuilt = 1
    /\ \A p \in 1..MaxCallers :
         /\ callers[p].instance \in {0, 1}
         /\ (callers[p].pc = "await") => callers[p].instance = 1

C30_TwoCallsPending ==
    /\ callers[1].pc = "await"
    /\ callers[2].pc = "await"
    /\ callers[1].op = "callGemini"
    /\ callers[2].op = "testGeminiConnection"
    /\ clientsBuilt = 1

(***************************************************************************)
(* Concurrent runs.                                                        *)
(***************************************************************************)
\* the strings the service answered to the calls of run q
AnsweredTo(q) ==
    {PoolPrinciples[q], PoolValidated[q], PoolReconstruction[q],
     PoolFinalPrinciples[q], PoolFinalReconstruction[q], PoolExamples[q],
     PoolUseCases[q], PoolScenarios[q], PoolChallenges[q]}

\* what run p, alone in the process, dispatches at stage k or rejects with,
\* given its input and the answers to its own earlier calls
AloneAt(p, k) ==
    LET run == runs[p]
        own == [input |-> run.input,
                principles |->
                  IF k > 1 THEN Step1Result(run.answers[1]).out ELSE <<>>,
                validatedPrinciples |->
                  IF k > 2 THEN Step2Result(run.answers[2]).out ELSE <<>>,
                reconstructionData |->
                  IF k > 3 THEN Step3Result(run.answers[3]).out
                  ELSE NoReconstruction]
    IN  Dispatch(k, TaskPrompt(k, own.input, own.principles,
                               own.validatedPrinciples, own.reconstructionData),
                 FALSE, apiKeySet)

\* C31: two runs of runPipeline interleaved at their awaits do not
\* interfere.  Every prompt a run dispatched is the prompt it dispatches
\* when alone, given its own input and the answers to its own calls; so is
\* the model it returns and the error it rejects with; and no string the
\* service answered to another run's call is in its prompts or its model.
C31_RunsDoNotInterfere ==
    \A p \in 1..MaxRuns :
      LET run == runs[p]
          n == Len(run.calls)
          last == StepResult(n, run.answers[n],
                             [validatedPrinciples |->
                                Step2Result(run.answers[2]).out])
      IN  /\ \A k \in 1..n :
               /\ AloneAt(p, k).sent
               /\ run.calls[k] = AloneAt(p, k).prompt
          /\ Len(run.answers) \in {n - 1, n}
          /\ run.pc = "Done" => (n = 4 /\ last.ok /\ run.result = last.out)
          /\ run.pc = "Failed" =>
               run.error = PipelineFailed(IF Len(run.answers) = n /\ n > 0
                                               /\ ~last.ok
                                          THEN last.err
                                          ELSE AloneAt(p, n + 1).err)
          /\ \A q \in (1..MaxRuns) \ {p} :
               /\ \A k \in 1..n : Elems(run.calls[k]) \cap AnsweredTo(q) = {}
               /\ run.pc = "Done" =>
                    \A x \in DOMAIN FactsGiven(run.result[1]) \ {"definition"} :
                      Elems(FactsGiven(run.result[1])[x]) \cap AnsweredTo(q) = {}

\* one run has returned its model while another, started by a different
\* input, is still waiting for the answer to its third call
C31_OneDoneOneAtStageThree ==
    \E p \in 1..MaxRuns : \E q \in 1..MaxRuns :
      /\ runs[p].pc = "Done"
      /\ runs[q].pc = "Stage3"
      /\ runs[p].input # runs[q].input
      /\ Len(runs[p].answers) = 4

(***************************************************************************)
(* The request handler.                                                    *)
(***************************************************************************)
\* the input constraint: a concept of 3 to 50 characters once trimmed, a
\* domain of the enum, a depth of short or exhaustive
SatisfiesInputConstraint(body) ==
    /\ body.kind = "input"
    /\ body.concept.type = "string"
    /\ Len(body.concept.core) >= CONCEPT_MIN_LENGTH
    /\ Len(body.concept.core) <= CONCEPT_MAX_LENGTH
    /\ body.domain \in DomainEnum
    /\ body.depth \in DepthEnum

\* C32: the handler calls runPipeline only with a concept that is trimmed
\* and 3 to 50 characters long, a domain of the enum and a depth of short or
\* exhaustive; a request violating the constraint is answered 400 and
\* starts no run.
C32_OnlyValidInputReachesPipeline ==
    /\ request.pc = "accepted" =>
         /\ runs[1].input.concept = request.body.concept.core
         /\ Len(runs[1].input.concept) >= CONCEPT_MIN_LENGTH
         /\ Len(runs[1].input.concept) <= CONCEPT_MAX_LENGTH
         /\ runs[1].input.domain \in DomainEnum
         /\ runs[1].input.depth \in DepthEnum
    /\ (request.pc # "none" /\ ~SatisfiesInputConstraint(request.body)) =>
         /\ Response.status = 400
         /\ runs[1] = IdleRun

(***************************************************************************)
(* Depth.                                                                  *)
(***************************************************************************)
\* C33: the model returned under depth short has exactly one example and
\* one scenario, the model returned under depth exhaustive has at least as
\* many examples, scenarios and challenges as that, and both have the same
\* seven sections.
C33_CountsFollowDepth ==
    (pc = "Done" /\ narrative = <<>>) =>
      LET m == result[1] IN
      /\ DOMAIN m = {requiredSections[i] : i \in 1..Len(requiredSections)}
      /\ input.depth = "short" =>
           /\ Len(m.examples) = 1
           /\ Len(m.scenarios) = 1
      /\ input.depth = "exhaustive" =>
           /\ Len(m.examples) >= 1
           /\ Len(m.scenarios) >= 1
           /\ Len(m.assumption_challenges) >= 1

(***************************************************************************)
(* Identifiers.                                                            *)
(***************************************************************************)
\* the entries of a section carry the ids prefix_1, prefix_2, ... in order
IdsByPosition(section, prefix) ==
    \A i \in 1..Len(section) : section[i].id = <<prefix, NumStr[i]>>

\* C34: in every model runPipeline returned, the i-th entry of a section has
\* the id <prefix>_i (principle, step, example, use_case, scenario,
\* challenge), and the i-th step has step_number i, so the step numbers are
\* 1..m without ties.
C34_IdsAssignedByPosition ==
    result # <<>> =>
      LET m == result[1] IN
      /\ IdsByPosition(m.first_principles, "principle_")
      /\ IdsByPosition(m.reconstruction, "step_")
      /\ IdsByPosition(m.examples, "example_")
      /\ IdsByPosition(m.use_cases, "use_case_")
      /\ IdsByPosition(m.scenarios, "scenario_")
      /\ IdsByPosition(m.assumption_challenges, "challenge_")
      /\ \A i \in 1..Len(m.reconstruction) : m.reconstruction[i].step_number = i
      /\ \A x \in (ItemSections \cup {"first_principles", "reconstruction"}) :
           \A i \in 1..Len(m[x]) : \A j \in 1..Len(m[x]) :
             m[x][i].id = m[x][j].id => i = j

\* a model with two principles, two steps and two entries in each section
\* of the application layer was returned
C34_TwoOfEachReturned ==
    /\ pc = "Done"
    /\ narrative = <<>>
    /\ Len(result[1].first_principles) = 2
    /\ Len(result[1].reconstruction) = 2
    /\ Len(result[1].examples) = 2
    /\ Len(result[1].assumption_challenges) = 2

(***************************************************************************)
(* The renderer and its argument.                                          *)
(***************************************************************************)
\* the caller's model object as it is once call i of renderNarrative is over
ModelAfterCall(i) == IF i < Len(rnCalls) THEN rnCalls[i + 1].given ELSE rnModel

\* C35: renderNarrative leaves the model passed in as it was, the order of
\* its reconstruction array included, and invokes the service never.
C35_ModelUnchangedByRendering ==
    /\ \A i \in 1..Len(rnCalls) : ModelAfterCall(i) = rnCalls[i].given
    /\ calls = <<>>
    /\ rCalls = <<>>

(***************************************************************************)
(* The text derived from an entity's dependencies.                         *)
(***************************************************************************)
\* the statements of those entries of deps that are ids of principles of
\* the model m, in the order of deps
ResolvedOf(m, deps) ==
    LET known == {m.first_principles[i].id : i \in 1..Len(m.first_principles)}
        kept == SelectSeq(deps, LAMBDA d : d \in known)
    IN  [i \in 1..Len(kept) |->
           m.first_principles[CHOOSE j \in 1..Len(m.first_principles) :
                                m.first_principles[j].id = kept[i]].statement]

UpToTwo(a) == SubSeq(a, 1, IF Len(a) < 2 THEN Len(a) ELSE 2)

\* the principle statements a text carries, in the order of the text
StatementsIn(text, m) ==
    SelectSeq(text,
              LAMBDA tok : \E i \in 1..Len(m.first_principles) :
                             m.first_principles[i].statement = tok)

\* the number a text speaks of: 1 with the singular wording, 2 with the
\* plural wording, 0 with neither
NumberSpokenOf(text, singular, plural) ==
    IF singular \in Elems(text) THEN 1
    ELSE IF plural \in Elems(text) THEN 2 ELSE 0

\* the text of the view model v, rendered from the model m, is derived from
\* the statements that Used(dependencies) yields for each entity
DerivedFrom(v, m, Used(_)) ==
    /\ \A i \in 1..Len(m.reconstruction) :
         StatementsIn(v.reconstruction[i].insight_offered, m)
           = Used(m.reconstruction[i].principle_dependencies)
    /\ \A i \in 1..Len(m.examples) :
         NumberSpokenOf(v.examples[i].principle_connection, "a key principle",
                        "how multiple principles work together")
           = Len(Used(m.examples[i].principle_dependencies))
    /\ \A i \in 1..Len(m.use_cases) :
         NumberSpokenOf(v.use_cases[i].principle_basis, "the core principle",
                        "the interplay of key principles")
           = Len(Used(m.use_cases[i].principle_dependencies))
    /\ \A i \in 1..Len(m.scenarios) :
         NumberSpokenOf(v.scenarios[i].concept_application,
                        "the fundamental principle", "multiple principles")
           = Len(Used(m.scenarios[i].principle_dependencies))

C37_ConnectionFollowsRank ==
    \A c \in 1..Len(rnCalls) :
      (/\ rnCalls[c].given # <<>>
       /\ DistinctStepNumbers(rnCalls[c].given[1].reconstruction))
      => LET given == rnCalls[c].given[1].reconstruction
             out == rnCalls[c].outcome.out[1].reconstruction
         IN  \A i \in 1..Len(given) :
               LET rank == 1 + Cardinality({j \in 1..Len(given) :
                             given[j].step_number < given[i].step_number})
               IN  out[rank].connection_to_previous
                     = IF rank = 1
                       THEN <<"This establishes the foundation for everything that follows.">>
                       ELSE <<"This builds directly on the previous step by ">>
                            \o ToLowerCase(given[i].logical_progression)
                            \o <<".">>

\* two steps were given in descending order of step_number, each with a
\* logical_progression of its own, and rendered
C37_LaterStepGivenFirst ==
    /\ Len(rnCalls) = 1
    /\ rnCalls[1].given # <<>>
    /\ LET given == rnCalls[1].given[1].reconstruction
           out == rnCalls[1].outcome.out[1].reconstruction
       IN  /\ Len(given) = 2
           /\ given[1].step_number > given[2].step_number
           /\ given[1].logical_progression # given[2].logical_progression
           /\ out[2].connection_to_previous
                = <<"This builds directly on the previous step by ">>
                  \o ToLowerCase(given[1].logical_progression) \o <<".">>

(***************************************************************************)
(* Template substitution.                                                  *)
(***************************************************************************)
RECURSIVE SinglePass(_, _)
\* the template t with each placeholder replaced by its value in one pass
\* over the template: a value put in is not looked at again
SinglePass(t, subs) ==
    IF t = <<>> THEN <<>>
    ELSE LET hit == {i \in 1..Len(subs) : subs[i][1] = Head(t)}
         IN  (IF hit = {} THEN <<Head(t)>> ELSE subs[Min(hit)][2])
             \o SinglePass(Tail(t), subs)

\* the task prompt of stage k of a run by single-pass substitution
SinglePassPrompt(k, run) ==
    LET c == <<"{concept}", <<run.input.concept>> >>
        d == <<"{domain}", <<run.input.domain>> >>
        e == <<"{depth}", <<run.input.depth>> >>
    IN  CASE k = 1 -> SinglePass(STEP1_CONCEPT_DECOMPOSITION_PROMPT, <<c, d, e>>)
          [] k = 2 -> SinglePass(STEP2_PRINCIPLE_VALIDATION_PROMPT,
                                 <<c, <<"{principles}", NumberedList(run.principles)>> >>)
          [] k = 3 -> SinglePass(STEP3_RECONSTRUCTION_PROMPT,
                                 <<c, <<"{principles}",
                                        NumberedList(run.validatedPrinciples)>>, e>>)
          [] k = 4 -> SinglePass(STEP4_APPLICATION_LAYER_PROMPT,
                                 Step4Substitutions(run.input.concept,
                                                    run.validatedPrinciples,
                                                    run.reconstructionData.reconstruction,
                                                    run.input.domain, run.input.depth))

\* C38: the task prompt of every stage is its template with each
\* placeholder replaced by its value in a single pass, so the concept given
\* appears in it verbatim wherever the template names {concept}, even when
\* it reads like a placeholder.
C38_SubstitutionIsSinglePass ==
    \A k \in 1..Len(runs[1].calls) :
      /\ runs[1].calls[k]
           = enforceJSONOutput(prependGoverningPrompt(SinglePassPrompt(k, runs[1])))
      /\ runs[1].input.concept \in Elems(runs[1].calls[k])

(***************************************************************************)
(* The guard and the concept.                                              *)
(***************************************************************************)
\* C39: for every input the request validation accepts, the guard accepts
\* the stage-1 task prompt, and (the API key being set) the service is
\* invoked for stage 1: no run is rejected for the words of its concept.
C39_ValidInputReachesService ==
    request.pc = "accepted" =>
      /\ validateGoverningCompliance(
           generateStep1Prompt(runs[1].input.concept, runs[1].input.domain,
                               runs[1].input.depth))
      /\ apiKeySet => Len(runs[1].calls) >= 1
      /\ runs[1].error
           # PipelineFailed(<<"Step 1", " prompt violates governing constraints">>)

(***************************************************************************)
(* Termination.                                                            *)
(***************************************************************************)
\* C40: the service answering every call, a run of runPipeline that was
\* started ends in Done or Failed after at most four service invocations,
\* and a call of callGeminiWithRetry returns or rejects after at most maxRetries + 1 of them; no run and no call waits or loops for
\* ever.
C40_EveryRunTerminates ==
    /\ [](Len(calls) <= 4 /\ Len(rCalls) <= rMaxRetries + 1)
    /\ (pc # "Idle") ~> (pc \in {"Done", "Failed"})
    /\ (rPc # "idle") ~> (rPc \in {"returned", "rejected"})

\* a call of callGeminiWithRetry was rejected after every attempt allowed
\* to it had failed, the first answer being a text that did not validate
C40_RejectedAfterAllAttempts ==
    /\ rPc = "rejected"
    /\ rMaxRetries = MaxRetriesArg
    /\ Len(rCalls) = MaxRetriesArg + 1
    /\ rFailures[1].kind = "validation"
====
